---- MODULE Spec2Model ----
(***************************************************************************)
(* Display-name cache and fuzzy search of the property-over-filename       *)
(* plugin: the link suggester's file cache (LinkTitleSuggest), its         *)
(* maintenance from vault and metadata events (plugin onload handlers and  *)
(* CacheService), and the two query entry points (LinkTitleSuggest and     *)
(* QuickSwitchModal getSuggestions).                                       *)
(*                                                                         *)
(* Strings are sequences of one-character strings.  Scores are kept in     *)
(* tenths (the code's 0.1 per character length penalty is 1 here).         *)
(***************************************************************************)
EXTENDS Integers, Sequences, FiniteSets, TLC

VARIABLES
    files,       \* the TFile objects: file id -> [path, inVault, fm]
    fileCache,   \* LinkTitleSuggest.fileCache / QuickSwitchModal.fileCache, in Map insertion order
    settings,    \* plugin.settings
    suggest,     \* plugin.suggest is defined
    cacheSuggest,\* CacheService.suggest is defined
    timer,       \* the 1000 ms startup timer of onload is still pending
    lastOp,      \* the last handler that ran, with its argument
    result,      \* the outcome of the last getSuggestions call
    call,        \* arguments and value of the last direct evaluation of a pure function
    matchReasons,\* LinkTitleSuggest.matchReasons: file path -> SearchMatchReason
    editor,      \* the active markdown view's editor and the suggester's context
    selected,    \* the suggestion last handed to selectSuggestion
    rebuilt,     \* the file cache a full build produced, kept for comparison
    commands,    \* app.commands.commands: command id -> command
    service,     \* QuickSwitcherService: originalSwitcherCommand, isCommandOverridden
    suggests,    \* workspace.editorSuggest.suggests
    loaded,      \* the plugin's lifecycle: "no", "yes", "unloaded", or "unloaded-early"
                 \* when onunload ran with the startup timer still pending
    preload,     \* the command registry, the suggester list and the saved settings
                 \* before onload
    invocation,  \* what the last invocation of the quick switcher command did
    originalSwitcherCallback, \* plugin.originalSwitcherCallback (the variant without services)
    refs,        \* which LinkTitleSuggest object plugin.suggest and CacheService.suggest
                 \* refer to
    dropEvent    \* the last drop event: what the host inserted and the deferred
                 \* callbacks the drop handlers scheduled

\* the host side: command registry, suggester list, plugin lifecycle
hostVars == <<rebuilt, commands, service, suggests, loaded, preload, invocation,
              originalSwitcherCallback, refs, dropEvent>>

vars == <<files, fileCache, settings, suggest, cacheSuggest, timer, lastOp, result, call,
          matchReasons, editor, selected, hostVars>>

----------------------------------------------------------------------------
(* Bounds *)

MaxFiles == 2        \* TFile objects alive at once

----------------------------------------------------------------------------
(* Strings *)

\* String.prototype.toLowerCase on the alphabet used
LowerChar(c) == IF c = "A" THEN "a" ELSE IF c = "B" THEN "b" ELSE c

toLowerCase(s) == [i \in 1..Len(s) |-> LowerChar(s[i])]

IsSpace(c) == c = " "

\* String.prototype.trim
RECURSIVE TrimLeft(_)
TrimLeft(s) == IF s # <<>> /\ IsSpace(Head(s)) THEN TrimLeft(Tail(s)) ELSE s

RECURSIVE TrimRight(_)
TrimRight(s) ==
    IF s # <<>> /\ IsSpace(s[Len(s)]) THEN TrimRight(SubSeq(s, 1, Len(s) - 1)) ELSE s

trim(s) == TrimRight(TrimLeft(s))

\* String.prototype.indexOf(c, from) for a one-character c: 0-based position, -1 if none
indexOf(s, c, from) ==
    LET hits == {j \in from..(Len(s) - 1) : s[j + 1] = c}
    IN  IF hits = {} THEN -1 ELSE CHOOSE j \in hits : \A k \in hits : j <= k

\* s has q at 1-based position i
MatchAt(s, q, i) ==
    /\ i >= 1
    /\ i + Len(q) - 1 <= Len(s)
    /\ \A k \in 1..Len(q) : s[i + k - 1] = q[k]

startsWith(s, q) == MatchAt(s, q, 1)

includes(s, q) == \E i \in 1..(Len(s) + 1) : MatchAt(s, q, i)

\* \w of JavaScript regular expressions
IsWordChar(c) == c \in {"a", "b", "A", "B"}

IsWordAt(s, j) == j \in 1..Len(s) /\ IsWordChar(s[j])

\* the assertion \b holds in front of 1-based position i
WordBoundaryAt(s, i) == IsWordAt(s, i - 1) # IsWordAt(s, i)

\* new RegExp(`\\b${q}`, 'i') raises a SyntaxError: the only metacharacter of
\* the alphabet is "(", and an unclosed group does not compile
RegExpThrows(q) == \E k \in 1..Len(q) : q[k] = "("

\* new RegExp(`\\b${q}`, 'i').test(s), for a pattern that compiles
WordBoundaryTest(s, q) ==
    \E i \in 1..(Len(s) + 1) :
        /\ MatchAt(toLowerCase(s), toLowerCase(q), i)
        /\ WordBoundaryAt(s, i)

\* collation keys of String.prototype.localeCompare: whitespace, punctuation, letters
PrimaryKey(c) ==
    IF c = " " THEN 1 ELSE IF c = "(" THEN 2 ELSE IF LowerChar(c) = "a" THEN 3 ELSE 4

TertiaryKey(c) == IF c \in {"A", "B"} THEN 1 ELSE 0

RECURSIVE CompareKeys(_, _)
CompareKeys(s, t) ==
    IF s = <<>> /\ t = <<>> THEN 0
    ELSE IF s = <<>> THEN -1
    ELSE IF t = <<>> THEN 1
    ELSE IF Head(s) < Head(t) THEN -1
    ELSE IF Head(s) > Head(t) THEN 1
    ELSE CompareKeys(Tail(s), Tail(t))

\* a.localeCompare(b): letters first (case ignored), case as the tie-break
localeCompare(s, t) ==
    LET primary == CompareKeys([i \in 1..Len(s) |-> PrimaryKey(s[i])],
                               [i \in 1..Len(t) |-> PrimaryKey(t[i])])
    IN  IF primary # 0 THEN primary
        ELSE CompareKeys([i \in 1..Len(s) |-> TertiaryKey(s[i])],
                         [i \in 1..Len(t) |-> TertiaryKey(t[i])])

----------------------------------------------------------------------------
(* Fuzzy matcher *)

\* the loop of fuzzyMatch: i is the cursor, k the next query character
RECURSIVE FuzzyScan(_, _, _, _)
FuzzyScan(lowerStr, lowerQuery, k, i) ==
    IF k > Len(lowerQuery) THEN TRUE
    ELSE LET next == indexOf(lowerStr, lowerQuery[k], i) + 1
         IN  IF next = 0 THEN FALSE
             ELSE FuzzyScan(lowerStr, lowerQuery, k + 1, next)

\* fuzzyMatch whose cursor never advances
fuzzyMatchNoCursor(str, query) ==
    \A k \in 1..Len(query) : indexOf(toLowerCase(str), toLowerCase(query)[k], 0) >= 0

fuzzyMatch(str, query) == FuzzyScan(toLowerCase(str), toLowerCase(query), 1, 0)

Max(a, b) == IF a >= b THEN a ELSE b

\* the if / else-if chain of getMatchScore, in tenths
TierScore(lowerDisplay, lowerQuery, lowerBasename, includeAlt) ==
    IF lowerDisplay = lowerQuery THEN 10000
    ELSE IF lowerBasename = lowerQuery THEN 9000
    ELSE IF startsWith(lowerDisplay, lowerQuery) THEN 1000
    ELSE IF includeAlt /\ startsWith(lowerBasename, lowerQuery) THEN 800
    ELSE IF includes(lowerDisplay, lowerQuery) THEN 500
    ELSE IF includeAlt /\ includes(lowerBasename, lowerQuery) THEN 300
    ELSE 0

BoundaryBonus(lowerDisplay, lowerQuery, lowerBasename, includeAlt) ==
    (IF WordBoundaryTest(lowerDisplay, lowerQuery) THEN 200 ELSE 0)
    + (IF includeAlt /\ WordBoundaryTest(lowerBasename, lowerQuery) THEN 150 ELSE 0)

lengthPenalty(display, query) == Max(0, Len(display) - Len(query))

\* getMatchScore for a query whose pattern compiles
getMatchScore(display, query, basename, includeAlt) ==
    LET lowerDisplay == toLowerCase(display)
        lowerBasename == toLowerCase(basename)
        lowerQuery == toLowerCase(query)
    IN  Max(0, TierScore(lowerDisplay, lowerQuery, lowerBasename, includeAlt)
               + BoundaryBonus(lowerDisplay, lowerQuery, lowerBasename, includeAlt)
               - lengthPenalty(display, query))

----------------------------------------------------------------------------
(* Files and front-matter *)

FileIds == 1..MaxFiles

NoFile == 0

\* the notes of a vault large enough to fill the quick switcher's list
ManyFiles ==
    << [path |-> "aa.md", basename |-> <<"a", "a">>],
       [path |-> "ba.md", basename |-> <<"b", "a">>],
       [path |-> "aaa.md", basename |-> <<"a", "a", "a">>],
       [path |-> "aab.md", basename |-> <<"a", "a", "b">>],
       [path |-> "aba.md", basename |-> <<"a", "b", "a">>],
       [path |-> "abb.md", basename |-> <<"a", "b", "b">>],
       [path |-> "baa.md", basename |-> <<"b", "a", "a">>],
       [path |-> "bab.md", basename |-> <<"b", "a", "b">>],
       [path |-> "bba.md", basename |-> <<"b", "b", "a">>],
       [path |-> "aaaa.md", basename |-> <<"a", "a", "a", "a">>],
       [path |-> "aaab.md", basename |-> <<"a", "a", "a", "b">>],
       [path |-> "aaba.md", basename |-> <<"a", "a", "b", "a">>],
       [path |-> "abaa.md", basename |-> <<"a", "b", "a", "a">>] >>

\* basename and extension of the paths used
Basename(path) ==
    CASE path = "a.md" -> <<"a">>
      [] path = "x/a.md" -> <<"a">>
      [] path = "ab.md" -> <<"a", "b">>
      [] path = "a(.md" -> <<"a", "(">>
      [] path = "n.txt" -> <<"n">>
      [] OTHER -> ManyFiles[CHOOSE i \in 1..Len(ManyFiles) : ManyFiles[i].path = path].basename

Extension(path) == IF path = "n.txt" THEN "txt" ELSE "md"

MdPaths == {"a.md", "ab.md", "a(.md"}

Paths == MdPaths \cup {"n.txt"}

\* a front-matter value: absent, null, or a string
Undefined == [kind |-> "undefined", str |-> <<>>]
Null == [kind |-> "null", str |-> <<>>]
StrVal(s) == [kind |-> "string", str |-> s]
\* a number, with the text String() gives for it
NumVal(s) == [kind |-> "number", str |-> s]

\* the aliases value: absent, one string, or a list of strings
NoAliases == [kind |-> "undefined", items |-> <<>>]
ScalarAlias(s) == [kind |-> "scalar", items |-> <<s>>]
ListAlias(l) == [kind |-> "list", items |-> l]
NumberAlias(s) == [kind |-> "number", items |-> <<s>>]

\* cache?.frontmatter of a file without front-matter
NoFrontmatter == [has |-> FALSE, title |-> Undefined, aliases |-> NoAliases]

Frontmatter(t, a) == [has |-> TRUE, title |-> t, aliases |-> a]

FrontMatters ==
    { NoFrontmatter,
      Frontmatter(StrVal(<<"b", " ", "a">>), NoAliases),
      Frontmatter(StrVal(<<"b", "(">>), ScalarAlias(<<"a", "b">>)),
      Frontmatter(StrVal(<<" ", "A", " ">>), ListAlias(<< <<" ", "b", " ">>, <<>> >>)) }

\* frontmatter[propertyKey]
PropertyValue(fm, propertyKey) ==
    IF fm.has /\ propertyKey = "title" THEN fm.title ELSE Undefined

\* a TFile that was never created
NoTFile == [path |-> "a.md", inVault |-> FALSE, fm |-> NoFrontmatter]

\* vault.getMarkdownFiles(), as a set of file ids
MarkdownFiles(fs) == {f \in DOMAIN fs : fs[f].inVault /\ Extension(fs[f].path) = "md"}

RECURSIVE Orderings(_)
Orderings(S) ==
    IF S = {} THEN {<<>>}
    ELSE UNION { {<<x>> \o o : o \in Orderings(S \ {x})} : x \in S }

Range(seq) == {seq[i] : i \in 1..Len(seq)}

----------------------------------------------------------------------------
(* Display Index *)

\* frontmatter.aliases normalised: Array.isArray ? list : [scalar], trimmed, empties dropped
RECURSIVE TrimAll(_)
TrimAll(items) ==
    IF items = <<>> THEN <<>>
    ELSE LET t == trim(Head(items))
         IN  (IF t = <<>> THEN <<>> ELSE <<t>>) \o TrimAll(Tail(items))

\* frontmatter?.aliases is truthy
AliasesTruthy(fm) ==
    /\ fm.has
    /\ \/ fm.aliases.kind = "list"
       \/ fm.aliases.kind = "scalar" /\ fm.aliases.items[1] # <<>>
       \/ fm.aliases.kind = "number" /\ fm.aliases.items[1] # <<"0">>

NormalizedAliases(fm) == IF AliasesTruthy(fm) THEN TrimAll(fm.aliases.items) ELSE <<>>

\* the record of an updateFileCache that keeps the property value untrimmed
CachedFileDataUntrimmed(fs, f, fm, propertyKey) ==
    LET value == PropertyValue(fm, propertyKey)
        custom == value.kind \in {"string", "number"} /\ trim(value.str) # <<>>
    IN  [ path |-> fs[f].path,
          file |-> f,
          displayName |-> IF custom THEN value.str ELSE Basename(fs[f].path),
          aliases |-> NormalizedAliases(fm),
          isCustomDisplay |-> custom ]

\* the record updateFileCache computes for file f whose metadata cache entry is fm
CachedFileData(fs, f, fm, propertyKey) ==
    LET value == PropertyValue(fm, propertyKey)
        propertyValue == trim(value.str)
        custom == value.kind \in {"string", "number"} /\ propertyValue # <<>>
    IN  [ path |-> fs[f].path,
          file |-> f,
          displayName |-> IF custom THEN propertyValue ELSE Basename(fs[f].path),
          aliases |-> NormalizedAliases(fm),
          isCustomDisplay |-> custom ]

\* a Map.prototype.set that deletes the key first, so that a rewritten key goes last
MapSetMovesLast(cache, rec) ==
    Append(SelectSeq(cache, LAMBDA r : r.path # rec.path), rec)

Keys(cache) == {cache[i].path : i \in 1..Len(cache)}

\* Map.prototype.set: an existing key keeps its position, a new key goes last
MapSet(cache, rec) ==
    IF rec.path \in Keys(cache)
    THEN [i \in 1..Len(cache) |-> IF cache[i].path = rec.path THEN rec ELSE cache[i]]
    ELSE Append(cache, rec)

\* an updateFileCache that drops every other record
updateFileCacheAlone(cache, fs, f, fm, propertyKey) ==
    <<CachedFileData(fs, f, fm, propertyKey)>>

updateFileCache(cache, fs, f, fm, propertyKey) ==
    MapSet(cache, CachedFileData(fs, f, fm, propertyKey))

\* fileCache.clear() and then updateFileCache for every markdown file, in vault order
RECURSIVE BuildFrom(_, _, _, _)
BuildFrom(cache, fs, order, propertyKey) ==
    IF order = <<>> THEN cache
    ELSE BuildFrom(updateFileCache(cache, fs, Head(order), fs[Head(order)].fm, propertyKey),
                   fs, Tail(order), propertyKey)

buildFileCache(fs, order, propertyKey) == BuildFrom(<<>>, fs, order, propertyKey)

----------------------------------------------------------------------------
(* Search Engine, Mode A: LinkTitleSuggest *)

\* file.basename of the TFile a cache record or a suggestion refers to
BasenameOf(fs, f) == IF f = NoFile THEN <<>> ELSE Basename(fs[f].path)

NoMatchText == <<"N", "o", " ", "m", "a", "t", "c", "h">>

NoMatchItem ==
    [file |-> NoFile, display |-> NoMatchText, isCustomDisplay |-> FALSE, isNoMatch |-> TRUE]

SuggestionItem(rec) ==
    [file |-> rec.file, display |-> rec.displayName,
     isCustomDisplay |-> rec.isCustomDisplay, isNoMatch |-> FALSE]

AliasMatch(rec, query) ==
    \E i \in 1..Len(rec.aliases) : fuzzyMatch(rec.aliases[i], query)

\* the matches flag of the loop body of performSearch
Matches(rec, fs, query, st) ==
    \/ query = <<>>
    \/ fuzzyMatch(rec.displayName, query)
    \/ st.includeFilenameInSearch /\ fuzzyMatch(BasenameOf(fs, rec.file), query)
    \/ st.includeAliasesInSearch /\ Len(rec.aliases) > 0 /\ AliasMatch(rec, query)

\* the suggestions pushed by the loop over fileCache.values(), in Map order
RECURSIVE MatchingItems(_, _, _, _)
MatchingItems(cache, fs, query, st) ==
    IF cache = <<>> THEN <<>>
    ELSE (IF Matches(Head(cache), fs, query, st)
          THEN <<SuggestionItem(Head(cache))>> ELSE <<>>)
         \o MatchingItems(Tail(cache), fs, query, st)

\* a comparator without the display-text tie-break
CompareScoredNoTieBreak(a, b) == b.score - a.score

\* the comparator of both sorts: bScore - aScore || aText.localeCompare(bText)
CompareScored(a, b) ==
    IF b.score - a.score # 0 THEN b.score - a.score ELSE localeCompare(a.text, b.text)

\* Array.prototype.sort is stable: x goes in front of the first element it precedes
RECURSIVE InsertSorted(_, _)
InsertSorted(sorted, x) ==
    IF sorted = <<>> THEN <<x>>
    ELSE IF CompareScored(x, Head(sorted)) < 0 THEN <<x>> \o sorted
    ELSE <<Head(sorted)>> \o InsertSorted(Tail(sorted), x)

RECURSIVE SortFrom(_, _)
SortFrom(sorted, rest) ==
    IF rest = <<>> THEN sorted
    ELSE SortFrom(InsertSorted(sorted, Head(rest)), Tail(rest))

StableSort(scored) == SortFrom(<<>>, scored)

ScoreOf(item, fs, query, st) ==
    getMatchScore(item.display, query, BasenameOf(fs, item.file), st.includeFilenameInSearch)

Returned(list) == [threw |-> FALSE, list |-> list]

Raised == [threw |-> TRUE, list |-> <<>>]

\* sortSuggestions: the comparator runs as soon as there are two elements, and
\* getMatchScore then raises if the query does not compile as a pattern
sortSuggestions(suggestions, fs, query, st) ==
    IF Len(suggestions) >= 2 /\ RegExpThrows(toLowerCase(query)) THEN Raised
    ELSE LET scored == [i \in 1..Len(suggestions) |->
                          [item |-> suggestions[i],
                           score |-> ScoreOf(suggestions[i], fs, query, st),
                           text |-> suggestions[i].display]]
             sorted == StableSort(scored)
         IN  Returned([i \in 1..Len(sorted) |-> sorted[i].item])

\* performSearch that adds the sentinel whenever nothing was found
performSearchSentinelAlways(cache, fs, query, st) ==
    LET found == MatchingItems(cache, fs, query, st)
        suggestions == IF Len(found) = 0 THEN <<NoMatchItem>> ELSE found
    IN  sortSuggestions(suggestions, fs, query, st)

performSearch(cache, fs, query, st) ==
    LET found == MatchingItems(cache, fs, query, st)
        suggestions == IF Len(found) = 0 /\ query # <<>> THEN <<NoMatchItem>> ELSE found
    IN  sortSuggestions(suggestions, fs, query, st)

\* LinkTitleSuggest.getSuggestions
getSuggestions(cache, fs, contextQuery, st) == performSearch(cache, fs, trim(contextQuery), st)

\* the variant of LinkTitleSuggest that records why each suggestion matched

NoReasons == {}

\* the matchReason object the loop body fills in for one cache record
MatchReason(rec, fs, query, st) ==
    [ matchedInTitle |-> query = <<>> \/ fuzzyMatch(rec.displayName, query),
      matchedInFilename |-> /\ st.includeFilenameInSearch
                            /\ BasenameOf(fs, rec.file) # rec.displayName
                            /\ fuzzyMatch(BasenameOf(fs, rec.file), query),
      matchedInAlias |-> /\ st.includeAliasesInSearch
                         /\ Len(rec.aliases) > 0
                         /\ AliasMatch(rec, query) ]

ReasonMatches(reason) ==
    reason.matchedInTitle \/ reason.matchedInFilename \/ reason.matchedInAlias

\* matchReasons.set(file.path, matchReason)
SetReason(reasons, path, reason) ==
    {e \in reasons : e.path # path} \cup {[path |-> path, reason |-> reason]}

\* the loop over fileCache.values(): suggestions pushed and reasons set
RECURSIVE ReasonLoop(_, _, _, _, _)
ReasonLoop(acc, cache, fs, query, st) ==
    IF cache = <<>> THEN acc
    ELSE LET rec == Head(cache)
             reason == MatchReason(rec, fs, query, st)
             next == IF ReasonMatches(reason)
                     THEN [ suggestions |-> Append(acc.suggestions, SuggestionItem(rec)),
                            reasons |-> SetReason(acc.reasons, fs[rec.file].path, reason) ]
                     ELSE acc
         IN  ReasonLoop(next, Tail(cache), fs, query, st)

\* performSearch of the variant: matchReasons.clear(), the loop, the sentinel, the sort
performSearchReasons(cache, fs, query, st) ==
    LET looped == ReasonLoop([suggestions |-> <<>>, reasons |-> NoReasons],
                             cache, fs, query, st)
        suggestions == IF Len(looped.suggestions) = 0 /\ query # <<>>
                       THEN <<NoMatchItem>> ELSE looped.suggestions
    IN  [ outcome |-> sortSuggestions(suggestions, fs, query, st),
          reasons |-> looped.reasons ]

getSuggestionsReasons(cache, fs, contextQuery, st) ==
    performSearchReasons(cache, fs, trim(contextQuery), st)

\* the editor: one line, positions are character offsets in it

NoEditor ==
    [view |-> FALSE, context |-> FALSE, start |-> 0, end |-> 0, line |-> <<>>,
     cursor |-> 0, useMarkdownLinks |-> FALSE]

NoSelection ==
    [file |-> NoFile, display |-> <<>>, isCustomDisplay |-> FALSE, isNoMatch |-> FALSE]

\* the folder part of a path, with its separator
Folder(path) == IF path = "x/a.md" THEN <<"x", "/">> ELSE <<>>

\* file.path as characters
PathChars(path) ==
    Folder(path) \o Basename(path) \o <<".">> \o
    (IF Extension(path) = "md" THEN <<"m", "d">> ELSE <<"t", "x", "t">>)

\* encodeURI: a space is escaped, the other characters used here are kept
RECURSIVE encodeURI(_)
encodeURI(s) ==
    IF s = <<>> THEN <<>>
    ELSE (IF Head(s) = " " THEN <<"%", "2", "0">> ELSE <<Head(s)>>) \o encodeURI(Tail(s))

\* String.slice(from, to) with 0-based offsets
StringSlice(s, from, to) ==
    SubSeq(s, from + 1, IF to > Len(s) THEN Len(s) ELSE to)

\* context.query: the text between [[ and the cursor
ContextQuery(ed) == StringSlice(ed.line, ed.start + 2, ed.end)

\* what the link selectSuggestion builds for file f points at: the encoded path
\* in a markdown link, the basename in a wikilink
LinkTarget(fs, f, useMarkdownLinks) ==
    IF useMarkdownLinks THEN encodeURI(PathChars(fs[f].path)) ELSE BasenameOf(fs, f)

\* the link text selectSuggestion builds
LinkText(suggestion, fs, useMarkdownLinks) ==
    IF useMarkdownLinks
    THEN <<"[">> \o suggestion.display \o <<"]", "(">>
         \o LinkTarget(fs, suggestion.file, TRUE) \o <<")">>
    ELSE <<"[", "[">> \o LinkTarget(fs, suggestion.file, FALSE) \o <<"|">>
         \o suggestion.display \o <<"]", "]">>

\* editor.replaceRange and editor.setCursor of selectSuggestion
InsertLink(ed, linkText) ==
    LET endPos == IF StringSlice(ed.line, ed.end, ed.end + 2) = <<"]", "]">>
                  THEN ed.end + 2 ELSE ed.end
    IN  [ed EXCEPT !.line = StringSlice(ed.line, 0, ed.start) \o linkText
                            \o StringSlice(ed.line, endPos, Len(ed.line)),
                   !.cursor = ed.start + Len(linkText)]

\* selectSuggestion that builds a link for every suggestion it is handed
selectSuggestionAny(ed, suggestion, fs) ==
    IF ~ed.view \/ ~ed.context THEN ed
    ELSE InsertLink(ed, <<"[", "[">> \o BasenameOf(fs, suggestion.file) \o <<"|">>
                        \o suggestion.display \o <<"]", "]">>)

\* LinkTitleSuggest.selectSuggestion
selectSuggestion(ed, suggestion, fs) ==
    IF suggestion.isNoMatch THEN ed
    ELSE IF ~ed.view \/ ~ed.context THEN ed
    ELSE InsertLink(ed, LinkText(suggestion, fs, ed.useMarkdownLinks))

----------------------------------------------------------------------------
(* Search Engine, Mode B: QuickSwitchModal *)

ModalLimit == 10       \* this.limit of the modal
RecentLimit == 10      \* slice(0, 10) of updateRecentFiles
AliasOnlyScore == -1   \* the placeholder score -0.1 of an alias-only match
RecentScore == 10000   \* score 1000 of recent files and of the new-note entry

\* scores the host's prepareFuzzySearch may give a matching text (at most 0)
HostScores == {-20, 0}

slice(seq, n) == SubSeq(seq, 1, IF Len(seq) < n THEN Len(seq) ELSE n)

\* getDisplayName: the display name read from the metadata cache at call time
getDisplayName(fs, f, propertyKey) == CachedFileData(fs, f, fs[f].fm, propertyKey).displayName

\* getItemText of a file
getItemText(fs, f, st) ==
    IF ~st.enableForQuickSwitcher THEN Basename(fs[f].path)
    ELSE getDisplayName(fs, f, st.propertyKey)

\* search(text) of prepareFuzzySearch(query): the host matches a text that holds
\* the query's characters in order and scores it as it sees fit
HostSearch(host, f, text, query) ==
    IF fuzzyMatch(text, query) THEN [matched |-> TRUE, score |-> host[f]]
    ELSE [matched |-> FALSE, score |-> 0]

FileItem(f, score) == [file |-> f, isNewNote |-> FALSE, newName |-> <<>>, score |-> score]

NewNoteItem(name) == [file |-> NoFile, isNewNote |-> TRUE, newName |-> name, score |-> RecentScore]

\* vault.getAbstractFileByPath(path) instanceof TFile
FilesAtPath(fs, path) == {f \in DOMAIN fs : fs[f].inVault /\ fs[f].path = path}

RECURSIVE ResolvePaths(_, _)
ResolvePaths(fs, paths) ==
    IF paths = <<>> THEN <<>>
    ELSE (IF FilesAtPath(fs, Head(paths)) = {} THEN <<>>
          ELSE <<CHOOSE f \in FilesAtPath(fs, Head(paths)) : TRUE>>)
         \o ResolvePaths(fs, Tail(paths))

\* filter((file, index, self) => self.indexOf(file) === index)
RECURSIVE Dedupe(_, _)
Dedupe(seq, seen) ==
    IF seq = <<>> THEN <<>>
    ELSE (IF Head(seq) \in seen THEN <<>> ELSE <<Head(seq)>>)
         \o Dedupe(Tail(seq), seen \cup {Head(seq)})

RECURSIVE Without(_, _)
Without(seq, drop) ==
    IF seq = <<>> THEN <<>>
    ELSE (IF Head(seq) \in drop THEN <<>> ELSE <<Head(seq)>>) \o Without(Tail(seq), drop)

\* updateRecentFiles without the fallback to the open views and the vault
updateRecentFilesTrackerOnly(fs, recent, order) ==
    IF recent.tracker THEN slice(ResolvePaths(fs, recent.lastOpen), RecentLimit) ELSE <<>>

\* updateRecentFiles: the tracker's last open files, else the open views
\* filled up with the vault's markdown files
updateRecentFiles(fs, recent, order) ==
    LET tracked == IF recent.tracker THEN slice(ResolvePaths(fs, recent.lastOpen), RecentLimit)
                   ELSE <<>>
        openFiles == Dedupe(recent.open, {})
        filled == IF Len(openFiles) < RecentLimit
                  THEN openFiles \o slice(Without(order, Range(openFiles)),
                                          RecentLimit - Len(openFiles))
                  ELSE openFiles
    IN  IF Len(tracked) = 0 THEN slice(filled, RecentLimit) ELSE tracked

getRecentFilesResults(fs, recent, order) ==
    LET recentFiles == updateRecentFiles(fs, recent, order)
    IN  [i \in 1..Len(recentFiles) |-> FileItem(recentFiles[i], RecentScore)]

SortItems(items, fs, st) ==
    LET scored == [i \in 1..Len(items) |->
                      [item |-> items[i], score |-> items[i].score,
                       text |-> getItemText(fs, items[i].file, st)]]
        sorted == StableSort(scored)
    IN  [i \in 1..Len(sorted) |-> sorted[i].item]

\* the loop of QuickSwitchModal.performSearch over fileCache.values()
RECURSIVE MatchingFiles(_, _, _, _, _)
MatchingFiles(cache, fs, searchQuery, st, host) ==
    IF cache = <<>> THEN <<>>
    ELSE LET rec == Head(cache)
             match == HostSearch(host, rec.file, getItemText(fs, rec.file, st), searchQuery)
             aliasMatch == /\ st.includeAliasesInSearch
                           /\ Len(rec.aliases) > 0
                           /\ AliasMatch(rec, searchQuery)
         IN  (IF match.matched \/ aliasMatch
              THEN <<FileItem(rec.file, IF match.matched THEN match.score ELSE AliasOnlyScore)>>
              ELSE <<>>)
             \o MatchingFiles(Tail(cache), fs, searchQuery, st, host)

\* performSearch that offers the new note next to the files it found
performSearchBAlwaysNew(cache, fs, searchQuery, st, host) ==
    LET results == SortItems(MatchingFiles(cache, fs, searchQuery, st, host), fs, st)
    IN  Returned(slice(results \o <<NewNoteItem(searchQuery)>>, ModalLimit))

\* performSearch that cuts the results to the limit before it sorts them
performSearchBSliceFirst(cache, fs, searchQuery, st, host) ==
    LET results == SortItems(slice(MatchingFiles(cache, fs, searchQuery, st, host), ModalLimit),
                             fs, st)
    IN  IF Len(results) = 0 THEN Returned(<<NewNoteItem(searchQuery)>>)
        ELSE Returned(results)

\* QuickSwitchModal.performSearch
performSearchB(cache, fs, searchQuery, st, host) ==
    LET results == SortItems(MatchingFiles(cache, fs, searchQuery, st, host), fs, st)
    IN  IF Len(results) = 0 THEN Returned(<<NewNoteItem(searchQuery)>>)
        ELSE Returned(slice(results, ModalLimit))

\* the branch of getSuggestions taken when enableForQuickSwitcher is off:
\* the host search over the basenames of the vault's markdown files
RECURSIVE DefaultMatches(_, _, _, _)
DefaultMatches(order, fs, searchQuery, host) ==
    IF order = <<>> THEN <<>>
    ELSE LET match == HostSearch(host, Head(order), Basename(fs[Head(order)].path), searchQuery)
         IN  (IF match.matched THEN <<FileItem(Head(order), match.score)>> ELSE <<>>)
             \o DefaultMatches(Tail(order), fs, searchQuery, host)

\* QuickSwitchModal.getSuggestions
getSuggestionsB(cache, fs, query, st, host, recent, order) ==
    LET searchQuery == trim(query)
    IN  IF searchQuery = <<>> THEN Returned(getRecentFilesResults(fs, recent, order))
        ELSE IF ~st.enableForQuickSwitcher
        THEN Returned(slice(SortItems(DefaultMatches(order, fs, searchQuery, host), fs, st),
                            ModalLimit))
        ELSE performSearchB(cache, fs, searchQuery, st, host)

----------------------------------------------------------------------------
(* Plugin state and handlers *)

\* DEFAULT_SETTINGS
DefaultSettings ==
    [ propertyKey |-> "title",
      enableForLinking |-> TRUE,
      enableForQuickSwitcher |-> TRUE,
      includeFilenameInSearch |-> TRUE,
      includeAliasesInSearch |-> TRUE ]

\* the text typed after [[ or into the quick switcher
Queries ==
    { <<>>, <<" ">>, <<"a">>, <<"A", " ">>, <<"b">>, <<"(">>, <<"a", "b">>, <<"b", "b">> }

\* paths and front-matter of the files that come and go in the vault
VaultPaths == {"a.md", "ab.md", "n.txt"}

VaultFrontMatters ==
    { NoFrontmatter, Frontmatter(StrVal(<<"b", " ", "a">>), NoAliases) }

VaultQueries == { <<>>, <<"a">>, <<"b", "b">> }

NoOp == [kind |-> "none", file |-> NoFile]

Op(kind, f) == [kind |-> kind, file |-> f]

NoResult == [mode |-> "none", query |-> <<>>, threw |-> FALSE, list |-> <<>>]

Outcome(mode, query, outcome) ==
    [mode |-> mode, query |-> query, threw |-> outcome.threw, list |-> outcome.list]

NoCall ==
    [done |-> FALSE, query |-> <<>>, includeAlt |-> FALSE, basename |-> <<>>,
     first |-> <<>>, second |-> <<>>, firstScore |-> 0, secondScore |-> 0,
     otherBasename |-> <<>>, otherScore |-> 0]

VaultOrders(fs) == Orderings(MarkdownFiles(fs))

\* file ids the cache still refers to
Referenced(cache) == {cache[i].file : i \in 1..Len(cache)}

PathsInVault(fs) == {fs[f].path : f \in {g \in DOMAIN fs : fs[g].inVault}}

\* a deleted TFile that no cache record refers to any more is garbage
Collect(fs, cache) ==
    [f \in DOMAIN fs |->
        IF ~fs[f].inVault /\ f \notin Referenced(cache) THEN NoTFile ELSE fs[f]]

\* CacheService.invalidateCache
invalidateCache(target, cache, fs, f, fm, propertyKey) ==
    IF target THEN updateFileCache(cache, fs, f, fm, propertyKey) ELSE cache

\* rebuildCache that re-reads the vault into the cache it already has
rebuildCacheKeepsOld(target, cache, fs, order, propertyKey) ==
    IF target THEN BuildFrom(cache, fs, order, propertyKey) ELSE cache

\* CacheService.rebuildCache
rebuildCache(target, cache, fs, order, propertyKey) ==
    IF target THEN buildFileCache(fs, order, propertyKey) ELSE cache

----------------------------------------------------------------------------
(* Command registry and suggester list of the host *)

SwitcherId == "switcher:open"

\* Plugin.addCommand prefixes the command id with the plugin's manifest id
PluginSwitcherId == "property-over-filename:switcher:open"

CommandIds == {SwitcherId, PluginSwitcherId}

\* a command's hotkeys field: absent, or a list of key chords
NoHotkeys == [defined |-> FALSE, keys |-> <<>>]
Hotkeys(keys) == [defined |-> TRUE, keys |-> keys]

\* commands[id] of an id that is not registered
NoCommand ==
    [present |-> FALSE, id |-> "", name |-> "", icon |-> "", hotkeys |-> NoHotkeys,
     callback |-> "undefined"]

\* the core quick switcher's command, with the hotkeys the host build gives it
HostCommand(hotkeys) ==
    [present |-> TRUE, id |-> SwitcherId, name |-> "Quick switcher: Open quick switcher",
     icon |-> "lucide-navigation", hotkeys |-> hotkeys, callback |-> "host"]

HostHotkeys == { NoHotkeys, Hotkeys(<<>>), Hotkeys(<<"Mod+o">>) }

\* the command object overrideQuickSwitcherCommand hands to addCommand
SwitcherOverride ==
    [present |-> TRUE, id |-> SwitcherId, name |-> "Quick Switcher", icon |-> "",
     hotkeys |-> Hotkeys(<<"Mod+o">>), callback |-> "wrapper"]

\* this.plugin.addCommand: the host registers the command under the prefixed id
addCommand(cmds, cmd) ==
    [cmds EXCEPT ![PluginSwitcherId] =
        [cmd EXCEPT !.id = PluginSwitcherId,
                    !.name = "Property Over Filename: " \o cmd.name]]

NoService == [originalSwitcherCommand |-> NoCommand, isCommandOverridden |-> FALSE]

\* the copy of the original command that overrideQuickSwitcherCommand keeps
SavedCommand(originalCmd) ==
    [originalCmd EXCEPT
        !.hotkeys = IF originalCmd.hotkeys.defined THEN originalCmd.hotkeys
                    ELSE Hotkeys(<<>>)]

\* QuickSwitcherService.overrideQuickSwitcherCommand: registry and service after it
overrideQuickSwitcherCommand(cmds, svc) ==
    LET original == IF cmds[SwitcherId].present /\ ~svc.originalSwitcherCommand.present
                    THEN SavedCommand(cmds[SwitcherId])
                    ELSE svc.originalSwitcherCommand
        deleted == [cmds EXCEPT ![SwitcherId] = NoCommand]
    IN  [ commands |-> addCommand(deleted, SwitcherOverride),
          service |-> [originalSwitcherCommand |-> original, isCommandOverridden |-> TRUE] ]

\* QuickSwitcherService.updateQuickSwitcher
updateQuickSwitcher(cmds, svc) ==
    IF ~svc.isCommandOverridden THEN overrideQuickSwitcherCommand(cmds, svc)
    ELSE [commands |-> cmds, service |-> svc]

\* a restoreOriginalCommand that leaves the registry as it finds it
restoreOriginalCommandNothing(cmds, svc) == [commands |-> cmds, service |-> svc]

\* QuickSwitcherService.restoreOriginalCommand
restoreOriginalCommand(cmds, svc) ==
    IF ~svc.originalSwitcherCommand.present THEN [commands |-> cmds, service |-> svc]
    ELSE [ commands |-> [cmds EXCEPT ![SwitcherId] = svc.originalSwitcherCommand],
           service |-> [svc EXCEPT !.isCommandOverridden = FALSE] ]

\* what one invocation of a command did
NoInvocation == [done |-> FALSE, modals |-> 0, hostCalls |-> 0, terminated |-> TRUE]

Invoked(modals, hostCalls, terminated) ==
    [done |-> TRUE, modals |-> modals, hostCalls |-> hostCalls, terminated |-> terminated]

\* app.commands.executeCommandById('switcher:open') from inside the override's callback:
\* nothing for an unregistered id, the host's callback for the host's command, and
\* the override's callback again, without end, if the override is what the id names
executeCommandById(cmds) ==
    IF ~cmds[SwitcherId].present THEN Invoked(0, 0, TRUE)
    ELSE IF cmds[SwitcherId].callback = "wrapper" THEN Invoked(0, 0, FALSE)
    ELSE Invoked(0, 1, TRUE)

\* a callback of the override that opens the plugin's modal whatever the setting
switcherCallbackAlwaysModal(st, svc, cmds) == Invoked(1, 0, TRUE)

\* the callback of the command overrideQuickSwitcherCommand registers
switcherCallback(st, svc, cmds) ==
    IF st.enableForQuickSwitcher THEN Invoked(1, 0, TRUE)
    ELSE IF svc.originalSwitcherCommand.present
            /\ svc.originalSwitcherCommand.callback # "undefined"
         THEN Invoked(0, 1, TRUE)
         ELSE executeCommandById(cmds)

\* no drop has happened
NoDrop ==
    [ file |-> NoFile, displayName |-> <<>>, prefix |-> <<>>, inserted |-> <<>>,
      scheduled |-> {}, pending |-> {}, rewrites |-> 0 ]

\* editorSuggest.suggests holds suggester objects: the constructor's name and,
\* for the plugin's own, which instance it is
PluginSuggest == "LinkTitleSuggest"

MaxInstances == 3
NoInstance == 0
HostSuggester(name) == [name |-> name, instance |-> NoInstance]

\* the plugin's suggester objects are numbered by age: 1 is the LinkTitleSuggest
\* constructed last, and MaxInstances stands for every object at least that old
LinkTitleSuggest(i) == [name |-> PluginSuggest, instance |-> i]

\* new LinkTitleSuggest(this) makes every earlier object one older
Older(i) ==
    IF i = NoInstance THEN NoInstance
    ELSE IF i < MaxInstances THEN i + 1 ELSE MaxInstances

OlderAll(list) == [k \in DOMAIN list |-> [list[k] EXCEPT !.instance = Older(@)]]

\* CacheService.setSuggest: the new target
setSuggestKeepFirst(target, s) == IF target = NoInstance THEN s ELSE target

setSuggest(target, s) == s

\* s.constructor.name.includes('LinkSuggest')
NameIncludesLinkSuggest(name) == name = "LinkSuggest"

RECURSIVE FilterOut(_, _)
FilterOut(seq, drop) ==
    IF seq = <<>> THEN <<>>
    ELSE (IF Head(seq) \in drop THEN <<>> ELSE <<Head(seq)>>) \o FilterOut(Tail(seq), drop)

\* the suggester lists a host build starts with: its own link suggester keeps its
\* class name or has a minified one
HostSuggests == { <<HostSuggester("LinkSuggest"), HostSuggester("TagSuggest")>>,
                  <<HostSuggester("t"), HostSuggester("n")>> }

\* the list after updateLinkSuggester; registerEditorSuggest appends to it
SuggestsAfterUpdateKeepOld(list, current, st) ==
    IF st.enableForLinking
    THEN <<LinkTitleSuggest(1)>>
           \o FilterOut(Append(OlderAll(list), LinkTitleSuggest(1)),
                        {s \in Range(list) : NameIncludesLinkSuggest(s.name)})
    ELSE list

SuggestsAfterUpdate(list, current, st) ==
    LET dropped == IF current # NoInstance
                   THEN FilterOut(list, {LinkTitleSuggest(current)})
                   ELSE list
    IN  IF st.enableForLinking
        THEN <<LinkTitleSuggest(1)>>
               \o FilterOut(Append(OlderAll(dropped), LinkTitleSuggest(1)),
                            {s \in Range(dropped) : NameIncludesLinkSuggest(s.name)})
        ELSE dropped

\* the host side when the plugin has loaded into a host with the core quick switcher
RegistryInit ==
    /\ commands = [id \in CommandIds |->
                      IF id = SwitcherId THEN HostCommand(Hotkeys(<<"Mod+o">>)) ELSE NoCommand]
    /\ service = NoService
    /\ refs = [suggest |-> IF suggest THEN 1 ELSE NoInstance,
                cacheSuggest |-> IF cacheSuggest THEN 1 ELSE NoInstance]
    /\ dropEvent = NoDrop
    /\ suggests = SuggestsAfterUpdate(
                      <<HostSuggester("LinkSuggest"), HostSuggester("TagSuggest")>>,
                      NoInstance, [enableForLinking |-> suggest])
    /\ loaded = "yes"
    /\ preload = [commands |-> commands,
                   suggests |-> <<HostSuggester("LinkSuggest"), HostSuggester("TagSuggest")>>,
                   settings |-> settings]
    /\ invocation = NoInvocation
    /\ originalSwitcherCallback = "undefined"

HostInit == rebuilt = <<>> /\ RegistryInit

\* the optional argument of saveSettings
NoPrev == [given |-> FALSE, value |-> FALSE]
Prev(b) == [given |-> TRUE, value |-> b]

\* saveSettings(prevQuickSwitcherState): registry and service after it
saveSettings(prev, st, cmds, svc) ==
    IF prev.given /\ prev.value # st.enableForQuickSwitcher
    THEN updateQuickSwitcher(cmds, svc)
    ELSE [commands |-> cmds, service |-> svc]

\* updateLinkSuggester: drop the registered suggester, and with enableForLinking
\* construct a new one (its constructor builds the cache) and hand it to CacheService
UpdateLinkSuggester(st) ==
    /\ suggests' = SuggestsAfterUpdate(suggests, refs.suggest, st)
    /\ refs' = IF st.enableForLinking
               THEN [suggest |-> 1, cacheSuggest |-> setSuggest(Older(refs.cacheSuggest), 1)]
               ELSE [refs EXCEPT !.suggest = NoInstance]
    /\ IF st.enableForLinking
       THEN \E order \in VaultOrders(files) :
               /\ suggest' = TRUE
               /\ cacheSuggest' = TRUE
               /\ fileCache' = buildFileCache(files, order, st.propertyKey)
               /\ files' = Collect(files, fileCache')
       ELSE /\ suggest' = FALSE
            /\ UNCHANGED <<cacheSuggest, fileCache, files>>

\* the setTimeout callback of onload
StartupTimer ==
    /\ timer
    /\ timer' = FALSE
    /\ UpdateLinkSuggester(settings)
    /\ LET after == updateQuickSwitcher(commands, service)
       IN  commands' = after.commands /\ service' = after.service
    /\ lastOp' = Op("startup", NoFile)
    /\ result' = NoResult
    /\ UNCHANGED <<settings, call, matchReasons, editor, selected, rebuilt, loaded, preload,
                   invocation, originalSwitcherCallback,
                   dropEvent>>

\* the toggle-linking command
ToggleLinking ==
    /\ settings' = [settings EXCEPT !.enableForLinking = ~settings.enableForLinking]
    /\ UpdateLinkSuggester(settings')
    /\ lastOp' = Op("toggle-linking", NoFile)
    /\ result' = NoResult
    /\ UNCHANGED <<timer, call, matchReasons, editor, selected, rebuilt, commands, service,
                   loaded, preload, invocation, originalSwitcherCallback,
                   dropEvent>>

\* a file appears in the vault; onload registers no handler for it
VaultCreate ==
    \E f \in FileIds, path \in VaultPaths, fm \in VaultFrontMatters :
        /\ ~files[f].inVault
        /\ f \notin Referenced(fileCache)
        /\ path \notin PathsInVault(files)
        /\ files' = [files EXCEPT ![f] = [path |-> path, inVault |-> TRUE, fm |-> fm]]
        /\ lastOp' = Op("create", f)
        /\ result' = NoResult
        /\ UNCHANGED <<fileCache, settings, suggest, cacheSuggest, timer, call,
                       matchReasons, editor, selected, hostVars>>

\* vault 'modify': the front-matter of a file changes
VaultModify ==
    \E f \in FileIds, fm \in VaultFrontMatters :
        /\ files[f].inVault
        /\ fm # files[f].fm
        /\ LET fs == [files EXCEPT ![f].fm = fm]
           IN  /\ fileCache' = IF Extension(fs[f].path) = "md"
                               THEN invalidateCache(cacheSuggest, fileCache, fs, f, fm,
                                                    settings.propertyKey)
                               ELSE fileCache
               /\ files' = Collect(fs, fileCache')
        /\ lastOp' = Op("modify", f)
        /\ result' = NoResult
        /\ UNCHANGED <<settings, suggest, cacheSuggest, timer, call,
                       matchReasons, editor, selected, hostVars>>

\* vault 'rename': the TFile object takes its new path before the handler runs
VaultRename ==
    \E f \in FileIds, path \in VaultPaths :
        /\ files[f].inVault
        /\ path \notin PathsInVault(files)
        /\ LET fs == [files EXCEPT ![f].path = path]
           IN  /\ fileCache' = IF Extension(fs[f].path) = "md"
                               THEN invalidateCache(cacheSuggest, fileCache, fs, f, fs[f].fm,
                                                    settings.propertyKey)
                               ELSE fileCache
               /\ files' = Collect(fs, fileCache')
        /\ lastOp' = Op("rename", f)
        /\ result' = NoResult
        /\ UNCHANGED <<settings, suggest, cacheSuggest, timer, call,
                       matchReasons, editor, selected, hostVars>>

\* vault 'delete': the metadata cache drops the file's entry before or after
\* the handler reads it
VaultDelete ==
    \E f \in FileIds : \E seen \in {files[f].fm, NoFrontmatter} :
        /\ files[f].inVault
        /\ LET fs == [files EXCEPT ![f].inVault = FALSE, ![f].fm = NoFrontmatter]
           IN  /\ fileCache' = IF Extension(fs[f].path) = "md"
                               THEN invalidateCache(cacheSuggest, fileCache, fs, f, seen,
                                                    settings.propertyKey)
                               ELSE fileCache
               /\ files' = Collect(fs, fileCache')
        /\ lastOp' = Op("delete", f)
        /\ result' = NoResult
        /\ UNCHANGED <<settings, suggest, cacheSuggest, timer, call,
                       matchReasons, editor, selected, hostVars>>

Rebuild(kind, f) ==
    \E order \in VaultOrders(files) :
        /\ fileCache' = rebuildCache(cacheSuggest, fileCache, files, order, settings.propertyKey)
        /\ files' = Collect(files, fileCache')
        /\ lastOp' = Op(kind, f)
        /\ result' = NoResult
        /\ UNCHANGED <<settings, suggest, cacheSuggest, timer, call,
                       matchReasons, editor, selected, hostVars>>

\* metadataCache 'changed': the handler rebuilds for a markdown file only
MetadataChanged ==
    \E f \in {g \in FileIds : files[g].inVault} :
        IF Extension(files[f].path) = "md" THEN Rebuild("changed", f)
        ELSE /\ lastOp' = Op("changed", f)
             /\ result' = NoResult
             /\ UNCHANGED <<files, fileCache, settings, suggest, cacheSuggest, timer, call,
                            matchReasons, editor, selected, hostVars>>

\* metadataCache 'resolved'
MetadataResolved == Rebuild("resolved", NoFile)

\* the rebuild-cache command
RebuildCommand == Rebuild("rebuild-command", NoFile)

\* the editor asks the registered suggester for suggestions
QueryA(queries) ==
    \E q \in queries :
        /\ suggest
        /\ settings.enableForLinking
        /\ result' = Outcome("A", q, getSuggestions(fileCache, files, q, settings))
        /\ lastOp' = Op("queryA", NoFile)
        /\ UNCHANGED <<files, fileCache, settings, suggest, cacheSuggest, timer, call,
                       matchReasons, editor, selected, hostVars>>

\* the editor asks the reason-recording variant of the suggester for suggestions
QueryReasons(queries) ==
    \E q \in queries :
        /\ suggest
        /\ settings.enableForLinking
        /\ LET out == getSuggestionsReasons(fileCache, files, q, settings)
           IN  /\ result' = Outcome("A", q, out.outcome)
               /\ matchReasons' = out.reasons
        /\ lastOp' = Op("queryReasons", NoFile)
        /\ UNCHANGED <<files, fileCache, settings, suggest, cacheSuggest, timer, call,
                       editor, selected, hostVars>>

\* the user picks one of the suggestions shown
SelectSuggestion ==
    \E i \in 1..Len(result.list) :
        /\ result.mode = "A"
        /\ ~result.threw
        /\ selected' = result.list[i]
        /\ editor' = selectSuggestion(editor, result.list[i], files)
        /\ lastOp' = Op("select", result.list[i].file)
        /\ UNCHANGED <<files, fileCache, settings, suggest, cacheSuggest, timer, result,
                       call, matchReasons, hostVars>>

\* what the user may type into the 'Property key' setting
PropertyKeyInputs == {"", "title", "name"}

\* the 'Property key' setting's onChange: the key is stored and saveSettings is
\* called with the current quick switcher flag
ChangePropertyKey ==
    \E value \in PropertyKeyInputs :
        /\ settings' = [settings EXCEPT !.propertyKey = IF value = "" THEN "title" ELSE value]
        /\ LET after == saveSettings(Prev(settings'.enableForQuickSwitcher), settings',
                                     commands, service)
           IN  commands' = after.commands /\ service' = after.service
        /\ lastOp' = Op("property-key", NoFile)
        /\ result' = NoResult
        /\ UNCHANGED <<files, fileCache, suggest, cacheSuggest, timer, call, matchReasons,
                       editor, selected, rebuilt, suggests, loaded, preload, invocation,
                       originalSwitcherCallback,
                       refs, dropEvent>>

Init ==
    /\ files = [f \in FileIds |-> NoTFile]
    /\ fileCache = <<>>
    /\ settings = DefaultSettings
    /\ suggest = FALSE
    /\ cacheSuggest = FALSE
    /\ timer = TRUE
    /\ lastOp = NoOp
    /\ result = NoResult
    /\ call = NoCall
    /\ matchReasons = NoReasons
    /\ editor = NoEditor
    /\ selected = NoSelection
    /\ HostInit

Next ==
    \/ StartupTimer
    \/ ToggleLinking
    \/ VaultCreate
    \/ VaultModify
    \/ VaultRename
    \/ VaultDelete
    \/ MetadataChanged
    \/ MetadataResolved
    \/ RebuildCommand
    \/ QueryA(VaultQueries)

Spec == Init /\ [][Next]_vars

----------------------------------------------------------------------------
(* Queries against every index of a small vault *)

\* what the workspace reports as recently opened: the recent-file tracker's
\* paths (when the tracker exists) and the files of the open markdown views
RecentInputs ==
    { [tracker |-> FALSE, lastOpen |-> <<>>, open |-> <<>>],
      [tracker |-> TRUE, lastOpen |-> <<"a.md">>, open |-> <<>>],
      [tracker |-> TRUE, lastOpen |-> <<"ab.md", "a.md">>, open |-> <<1>>],
      [tracker |-> TRUE, lastOpen |-> <<>>, open |-> <<1, 1>>],
      [tracker |-> TRUE, open |-> <<>>,
       lastOpen |-> [i \in 1..(RecentLimit + 1) |-> IF i % 2 = 1 THEN "ab.md" ELSE "a.md"]] }

\* the workspace of a query that does not look at the recent files
NoRecent == [tracker |-> FALSE, lastOpen |-> <<>>, open |-> <<>>]

\* a quick switcher query, with the workspace state it read
OpB(recent) == [kind |-> "queryB", file |-> NoFile, recent |-> recent]

\* the text the host scores for file f equals the query: the host gives such
\* a text its best score
HostExact(fs, f, searchQuery, st) ==
    toLowerCase(getItemText(fs, f, st)) = toLowerCase(searchQuery)

\* a quick switcher modal is opened (its constructor builds its own cache from
\* the vault) and asked for suggestions
QueryB(queries) ==
    \E q \in queries, order \in VaultOrders(files) :
        LET cache == buildFileCache(files, order, settings.propertyKey)
        IN  /\ IF trim(q) = <<>>
               THEN \E recent \in RecentInputs :
                       /\ Range(recent.open) \subseteq MarkdownFiles(files)
                       /\ result' = Outcome("B", q,
                              getSuggestionsB(cache, files, q, settings,
                                              [f \in FileIds |-> 0], recent, order))
                       /\ lastOp' = OpB(recent)
               ELSE \E host \in [FileIds -> HostScores] :
                       /\ \A f \in FileIds \ MarkdownFiles(files) : host[f] = 0
                       /\ \A f \in MarkdownFiles(files) :
                             HostExact(files, f, trim(q), settings) => host[f] = 0
                       /\ result' = Outcome("B", q,
                              getSuggestionsB(cache, files, q, settings, host,
                                              NoRecent, order))
                       /\ lastOp' = OpB(NoRecent)
            /\ UNCHANGED <<files, fileCache, settings, suggest, cacheSuggest, timer, call,
                           matchReasons, editor, selected, hostVars>>

\* injective assignments of markdown paths to the first n file ids
PathAssignments(n) ==
    {ps \in [1..n -> MdPaths] : \A i, j \in 1..n : i # j => ps[i] # ps[j]}

\* the plugin is loaded with any saved flags on a vault of up to MaxFiles
\* markdown files, the startup timer has fired and the suggester is registered
InitSearch ==
    /\ \E n \in 0..MaxFiles :
         \E ps \in PathAssignments(n), fms \in [1..n -> FrontMatters] :
            files = [f \in FileIds |->
                        IF f <= n THEN [path |-> ps[f], inVault |-> TRUE, fm |-> fms[f]]
                        ELSE NoTFile]
    /\ \E fn, al, qs \in BOOLEAN :
         settings = [DefaultSettings EXCEPT !.includeFilenameInSearch = fn,
                                            !.includeAliasesInSearch = al,
                                            !.enableForQuickSwitcher = qs]
    /\ fileCache = buildFileCache(files,
                                  [i \in 1..Cardinality(MarkdownFiles(files)) |-> i],
                                  settings.propertyKey)
    /\ suggest = TRUE
    /\ cacheSuggest = TRUE
    /\ timer = FALSE
    /\ lastOp = NoOp
    /\ result = NoResult
    /\ call = NoCall
    /\ matchReasons = NoReasons
    /\ editor = NoEditor
    /\ selected = NoSelection
    /\ HostInit

\* one query is put to each index
SearchA == result = NoResult /\ QueryA(Queries)

SearchB == result = NoResult /\ QueryB(Queries)

NextSearch ==
    \/ SearchA
    \/ SearchB

SpecSearch == InitSearch /\ [][NextSearch]_vars

----------------------------------------------------------------------------
(* getMatchScore on its own *)

PadLen == 505     \* length of the tail of the long candidate

ScoreQueries == { <<"a">>, <<"a", "b">> }

\* candidates: equal to a query, starting with it, containing it, long
ScoreCandidates ==
    { <<"a">>, <<"A">>, <<"a", "b">>, <<"a", " ", "b">>, <<"b", " ", "a">>,
      <<"b", "a">>, <<"b", "a", "b">>, <<"a">> \o [i \in 1..PadLen |-> "b"] }

ScoreBasenames == { <<>>, <<"a">>, <<"b", " ", "a">> }

InitScore ==
    /\ call \in [done : {FALSE}, query : ScoreQueries, includeAlt : BOOLEAN,
                 basename : ScoreBasenames, first : ScoreCandidates,
                 second : ScoreCandidates, firstScore : {0}, secondScore : {0},
                 otherBasename : ScoreBasenames, otherScore : {0}]
    /\ files = [f \in FileIds |-> NoTFile]
    /\ fileCache = <<>>
    /\ settings = DefaultSettings
    /\ suggest = FALSE
    /\ cacheSuggest = FALSE
    /\ timer = FALSE
    /\ lastOp = NoOp
    /\ result = NoResult
    /\ matchReasons = NoReasons
    /\ editor = NoEditor
    /\ selected = NoSelection
    /\ HostInit

\* the comparator of sortSuggestions scores two suggestions for the same query;
\* the first is also scored as the suggestion of a file with another basename
ScoreBoth ==
    /\ ~call.done
    /\ call' = [call EXCEPT
                   !.done = TRUE,
                   !.firstScore = getMatchScore(call.first, call.query, call.basename,
                                                call.includeAlt),
                   !.secondScore = getMatchScore(call.second, call.query, call.basename,
                                                 call.includeAlt),
                   !.otherScore = getMatchScore(call.first, call.query, call.otherBasename,
                                                call.includeAlt)]
    /\ UNCHANGED <<files, fileCache, settings, suggest, cacheSuggest, timer, lastOp, result,
                   matchReasons, editor, selected, hostVars>>

NextScore == ScoreBoth

SpecScore == InitScore /\ [][NextScore]_vars

----------------------------------------------------------------------------
(* Selecting a suggestion in the editor *)

\* the line being edited: text, offset of [[ and offset of the cursor
EditorLines ==
    { [line |-> <<"[", "[", "a">>, start |-> 0, end |-> 3],
      [line |-> <<"[", "[", "b", "b", "]", "]">>, start |-> 0, end |-> 4],
      [line |-> <<"b", " ", "[", "[">>, start |-> 2, end |-> 4] }

EditorStates ==
    { [view |-> v, context |-> c, start |-> l.start, end |-> l.end, line |-> l.line,
       cursor |-> l.end, useMarkdownLinks |-> m] :
          v \in BOOLEAN, c \in BOOLEAN, m \in BOOLEAN, l \in EditorLines }

\* the suggester is registered on a small vault and [[ has been typed
InitSelect ==
    /\ \E n \in 0..MaxFiles :
         \E ps \in PathAssignments(n), fms \in [1..n -> VaultFrontMatters] :
            files = [f \in FileIds |->
                        IF f <= n THEN [path |-> ps[f], inVault |-> TRUE, fm |-> fms[f]]
                        ELSE NoTFile]
    /\ settings = DefaultSettings
    /\ fileCache = buildFileCache(files,
                                  [i \in 1..Cardinality(MarkdownFiles(files)) |-> i],
                                  settings.propertyKey)
    /\ suggest = TRUE
    /\ cacheSuggest = TRUE
    /\ timer = FALSE
    /\ lastOp = NoOp
    /\ result = NoResult
    /\ call = NoCall
    /\ matchReasons = NoReasons
    /\ editor \in EditorStates
    /\ selected = NoSelection
    /\ HostInit

\* the suggestions for the text typed after [[
SuggestForContext == result = NoResult /\ QueryA({ContextQuery(editor)})

SelectOnce == lastOp.kind = "queryA" /\ SelectSuggestion

NextSelect ==
    \/ SuggestForContext
    \/ SelectOnce

SpecSelect == InitSelect /\ [][NextSelect]_vars

----------------------------------------------------------------------------
(* The reason-recording suggester on an index that saw one rename *)

InitReasons == InitSearch /\ settings.enableForQuickSwitcher

RenameOnce == lastOp = NoOp /\ VaultRename

SearchReasons == QueryReasons(Queries)

NextReasons ==
    \/ RenameOnce
    \/ SearchReasons

SpecReasons == InitReasons /\ [][NextReasons]_vars

----------------------------------------------------------------------------
(* The record derived from one file's front-matter *)

DeriveTitles ==
    { Undefined, Null, StrVal(<<>>), StrVal(<<" ">>), StrVal(<<"b", " ", "a">>),
      StrVal(<<" ", "A", " ">>), NumVal(<<"0">>) }

DeriveAliases ==
    { NoAliases, ScalarAlias(<<>>), ScalarAlias(<<" ", "b", " ">>),
      NumberAlias(<<"0">>), NumberAlias(<<"1">>), ListAlias(<<>>),
      ListAlias(<< <<" ", "b", " ">>, <<>>, <<"a">>, <<" ">> >>) }

DeriveFrontMatters ==
    {NoFrontmatter} \cup {Frontmatter(t, a) : t \in DeriveTitles, a \in DeriveAliases}

PropertyKeys == {"title", "name"}

\* one markdown file in the vault, a suggester registered, its cache still empty
InitDerive ==
    /\ \E path \in MdPaths, fm \in DeriveFrontMatters :
          files = [f \in FileIds |->
                      IF f = 1 THEN [path |-> path, inVault |-> TRUE, fm |-> fm]
                      ELSE NoTFile]
    /\ \E key \in PropertyKeys : settings = [DefaultSettings EXCEPT !.propertyKey = key]
    /\ fileCache = <<>>
    /\ suggest = TRUE
    /\ cacheSuggest = TRUE
    /\ timer = FALSE
    /\ lastOp = NoOp
    /\ result = NoResult
    /\ call = NoCall
    /\ matchReasons = NoReasons
    /\ editor = NoEditor
    /\ selected = NoSelection
    /\ HostInit

\* vault 'modify' for an edit that leaves the front-matter as it is
ModifyBody ==
    \E f \in FileIds :
        /\ files[f].inVault
        /\ Extension(files[f].path) = "md"
        /\ fileCache' = invalidateCache(cacheSuggest, fileCache, files, f, files[f].fm,
                                        settings.propertyKey)
        /\ lastOp' = Op("modify", f)
        /\ result' = NoResult
        /\ UNCHANGED <<files, settings, suggest, cacheSuggest, timer, call,
                       matchReasons, editor, selected, hostVars>>

DeriveByUpdate == lastOp = NoOp /\ ModifyBody

DeriveByBuild == lastOp = NoOp /\ RebuildCommand

NextDerive ==
    \/ DeriveByUpdate
    \/ DeriveByBuild

SpecDerive == InitDerive /\ [][NextDerive]_vars

----------------------------------------------------------------------------
(* fuzzyMatch on its own *)

MaxLen == 3      \* length of the candidates and queries tried

FuzzyChars == {"a", "b", "A"}

FuzzyStrings == UNION { [1..n -> FuzzyChars] : n \in 0..MaxLen }

InitFuzzy ==
    /\ call \in [done : {FALSE}, candidate : FuzzyStrings, query : FuzzyStrings,
                 value : {FALSE}]
    /\ files = [f \in FileIds |-> NoTFile]
    /\ fileCache = <<>>
    /\ settings = DefaultSettings
    /\ suggest = FALSE
    /\ cacheSuggest = FALSE
    /\ timer = FALSE
    /\ lastOp = NoOp
    /\ result = NoResult
    /\ matchReasons = NoReasons
    /\ editor = NoEditor
    /\ selected = NoSelection
    /\ HostInit

\* one evaluation of fuzzyMatch(candidate, query)
MatchOnce ==
    /\ ~call.done
    /\ call' = [call EXCEPT !.done = TRUE, !.value = fuzzyMatch(call.candidate, call.query)]
    /\ UNCHANGED <<files, fileCache, settings, suggest, cacheSuggest, timer, lastOp, result,
                   matchReasons, editor, selected, hostVars>>

NextFuzzy == MatchOnce

SpecFuzzy == InitFuzzy /\ [][NextFuzzy]_vars

----------------------------------------------------------------------------
(* Full build followed by single-file updates, on an unchanged vault *)

\* the suggester has just built its cache from a vault of up to MaxFiles markdown
\* files, enumerated by the vault in any order
InitRebuild ==
    /\ \E n \in 0..MaxFiles :
         \E ps \in PathAssignments(n), fms \in [1..n -> FrontMatters] :
            files = [f \in FileIds |->
                        IF f <= n THEN [path |-> ps[f], inVault |-> TRUE, fm |-> fms[f]]
                        ELSE NoTFile]
    /\ settings = DefaultSettings
    /\ \E order \in VaultOrders(files) :
         fileCache = buildFileCache(files, order, settings.propertyKey)
    /\ rebuilt = fileCache
    /\ suggest = TRUE
    /\ cacheSuggest = TRUE
    /\ timer = FALSE
    /\ lastOp = NoOp
    /\ result = NoResult
    /\ call = NoCall
    /\ matchReasons = NoReasons
    /\ editor = NoEditor
    /\ selected = NoSelection
    /\ RegistryInit

\* updateFileCache(f) for a markdown file of the vault whose front-matter is as it was
UpdateUnchanged ==
    \E f \in MarkdownFiles(files) :
        /\ fileCache' = updateFileCache(fileCache, files, f, files[f].fm, settings.propertyKey)
        /\ lastOp' = Op("update", f)
        /\ UNCHANGED <<files, settings, suggest, cacheSuggest, timer, result, call,
                       matchReasons, editor, selected, hostVars>>

NextRebuild == UpdateUnchanged

SpecRebuild == InitRebuild /\ [][NextRebuild]_vars

----------------------------------------------------------------------------
(* A change of the property key, then a query *)

ChangeKeyOnce == lastOp = NoOp /\ ChangePropertyKey

QueryAfterChange == lastOp.kind = "property-key" /\ QueryA(VaultQueries)

NextSettings ==
    \/ ChangeKeyOnce
    \/ QueryAfterChange

SpecSettings == InitSearch /\ [][NextSettings]_vars

----------------------------------------------------------------------------
(* Load, deferred startup, quick switcher setting, invocation and unload *)

\* the host before the plugin loads: with or without the core quick switcher's
\* command, any saved flags, an empty vault
InitLifecycle ==
    /\ files = [f \in FileIds |-> NoTFile]
    /\ fileCache = <<>>
    /\ \E ln, qs \in BOOLEAN :
         settings = [DefaultSettings EXCEPT !.enableForLinking = ln,
                                            !.enableForQuickSwitcher = qs]
    /\ suggest = FALSE
    /\ cacheSuggest = FALSE
    /\ timer = FALSE
    /\ lastOp = NoOp
    /\ result = NoResult
    /\ call = NoCall
    /\ matchReasons = NoReasons
    /\ editor = NoEditor
    /\ selected = NoSelection
    /\ rebuilt = <<>>
    /\ \E original \in {NoCommand} \cup {HostCommand(h) : h \in HostHotkeys} :
         commands = [id \in CommandIds |-> IF id = SwitcherId THEN original ELSE NoCommand]
    /\ service = NoService
    /\ suggests \in HostSuggests
    /\ refs = [suggest |-> NoInstance, cacheSuggest |-> NoInstance]
    /\ dropEvent = NoDrop
    /\ loaded = "no"
    /\ preload = [commands |-> commands, suggests |-> suggests, settings |-> settings]
    /\ invocation = NoInvocation
    /\ originalSwitcherCallback = "undefined"

\* onload: the services are constructed and the startup timer is set
Onload ==
    /\ loaded = "no"
    /\ loaded' = "yes"
    /\ timer' = TRUE
    /\ service' = NoService
    /\ lastOp' = Op("load", NoFile)
    /\ UNCHANGED <<files, fileCache, settings, suggest, cacheSuggest, result, call,
                   matchReasons, editor, selected, rebuilt, commands, suggests, preload,
                   invocation, originalSwitcherCallback,
                   refs, dropEvent>>

\* the toggle-quick-switcher command, and the 'In Quick Switcher' setting
ToggleQuickSwitcher ==
    /\ loaded = "yes"
    /\ settings' = [settings EXCEPT !.enableForQuickSwitcher = ~settings.enableForQuickSwitcher]
    /\ LET after == saveSettings(Prev(settings.enableForQuickSwitcher), settings',
                                 commands, service)
       IN  commands' = after.commands /\ service' = after.service
    /\ lastOp' = Op("toggle-quick-switcher", NoFile)
    /\ UNCHANGED <<files, fileCache, suggest, cacheSuggest, timer, result, call,
                   matchReasons, editor, selected, rebuilt, suggests, loaded, preload,
                   invocation, originalSwitcherCallback,
                   refs, dropEvent>>

\* plugin.updateQuickSwitcher() called directly
UpdateQuickSwitcher ==
    /\ loaded = "yes"
    /\ LET after == updateQuickSwitcher(commands, service)
       IN  commands' = after.commands /\ service' = after.service
    /\ lastOp' = Op("update-quick-switcher", NoFile)
    /\ UNCHANGED <<files, fileCache, settings, suggest, cacheSuggest, timer, result, call,
                   matchReasons, editor, selected, rebuilt, suggests, loaded, preload,
                   invocation, originalSwitcherCallback,
                   refs, dropEvent>>

\* the toggle-linking command while the plugin is loaded
ToggleLinkingLoaded == loaded = "yes" /\ ToggleLinking

\* the user runs the command the override registered
InvokeSwitcher ==
    /\ \E id \in CommandIds : commands[id].callback = "wrapper"
    /\ invocation' = switcherCallback(settings, service, commands)
    /\ lastOp' = Op("invoke", NoFile)
    /\ UNCHANGED <<files, fileCache, settings, suggest, cacheSuggest, timer, result, call,
                   matchReasons, editor, selected, rebuilt, commands, service, suggests,
                   loaded, preload, originalSwitcherCallback,
                   refs, dropEvent>>

\* Plugin.unload: onunload, and the host drops what the plugin registered through
\* addCommand and registerEditorSuggest while it was loaded
Onunload ==
    /\ loaded = "yes"
    /\ loaded' = IF timer THEN "unloaded-early" ELSE "unloaded"
    /\ suggests' = FilterOut(suggests, {s \in Range(suggests) : s.name = PluginSuggest})
    /\ LET after == restoreOriginalCommand(commands, service)
       IN  /\ commands' = [after.commands EXCEPT ![PluginSwitcherId] = NoCommand]
           /\ service' = after.service
    /\ lastOp' = Op("unload", NoFile)
    /\ UNCHANGED <<files, fileCache, settings, suggest, cacheSuggest, timer, result, call,
                   matchReasons, editor, selected, rebuilt, preload, invocation,
                   originalSwitcherCallback,
                   refs, dropEvent>>

NextLifecycle ==
    \/ Onload
    \/ StartupTimer
    \/ ToggleQuickSwitcher
    \/ UpdateQuickSwitcher
    \/ ToggleLinkingLoaded
    \/ InvokeSwitcher
    \/ Onunload

SpecLifecycle == InitLifecycle /\ [][NextLifecycle]_vars

----------------------------------------------------------------------------
(* The plugin without services: updateQuickSwitcher swaps command.callback *)

\* an updateQuickSwitcher that does not put the saved callback back first
updateQuickSwitcherMainNoRestore(cmds, original, st) ==
    IF ~cmds[SwitcherId].present THEN [commands |-> cmds, original |-> original]
    ELSE IF st.enableForQuickSwitcher
         THEN [ commands |-> [cmds EXCEPT ![SwitcherId].callback = "wrapper"],
                original |-> cmds[SwitcherId].callback ]
         ELSE [commands |-> cmds, original |-> original]

\* PropertyOverFilenamePlugin.updateQuickSwitcher of main.ts: the registry and
\* originalSwitcherCallback after it
updateQuickSwitcherMain(cmds, original, st) ==
    IF ~cmds[SwitcherId].present THEN [commands |-> cmds, original |-> original]
    ELSE LET restored == IF original # "undefined" THEN original
                         ELSE cmds[SwitcherId].callback
         IN  IF st.enableForQuickSwitcher
             THEN [ commands |-> [cmds EXCEPT ![SwitcherId].callback = "wrapper"],
                    original |-> restored ]
             ELSE [ commands |-> [cmds EXCEPT ![SwitcherId].callback = restored],
                    original |-> "undefined" ]

\* onload of main.ts: settings are loaded, then both updates run at once
OnloadMain ==
    /\ loaded = "no"
    /\ loaded' = "yes"
    /\ UpdateLinkSuggester(settings)
    /\ LET after == updateQuickSwitcherMain(commands, originalSwitcherCallback, settings)
       IN  commands' = after.commands /\ originalSwitcherCallback' = after.original
    /\ lastOp' = Op("load", NoFile)
    /\ UNCHANGED <<settings, timer, result, call, matchReasons, editor, selected, rebuilt,
                   service, preload, invocation,
                   dropEvent>>

\* a setting is given any value and saveSettings runs both updates
SaveSettingsMain ==
    \E ln, qs \in BOOLEAN :
        /\ loaded = "yes"
        /\ settings' = [settings EXCEPT !.enableForLinking = ln,
                                        !.enableForQuickSwitcher = qs]
        /\ UpdateLinkSuggester(settings')
        /\ LET after == updateQuickSwitcherMain(commands, originalSwitcherCallback, settings')
           IN  commands' = after.commands /\ originalSwitcherCallback' = after.original
        /\ lastOp' = Op("save-settings", NoFile)
        /\ UNCHANGED <<timer, result, call, matchReasons, editor, selected, rebuilt,
                       service, loaded, preload, invocation,
                       dropEvent>>

\* updateQuickSwitcher called on its own
UpdateQuickSwitcherMain ==
    /\ loaded = "yes"
    /\ LET after == updateQuickSwitcherMain(commands, originalSwitcherCallback, settings)
       IN  commands' = after.commands /\ originalSwitcherCallback' = after.original
    /\ lastOp' = Op("update-quick-switcher", NoFile)
    /\ UNCHANGED <<files, fileCache, settings, suggest, cacheSuggest, timer, result, call,
                   matchReasons, editor, selected, rebuilt, service, suggests, loaded,
                   preload, invocation,
                   refs, dropEvent>>

\* onunload of main.ts, and the host drops the registered suggester
OnunloadMain ==
    /\ loaded = "yes"
    /\ loaded' = "unloaded"
    /\ suggests' = FilterOut(suggests, {s \in Range(suggests) : s.name = PluginSuggest})
    /\ commands' = IF commands[SwitcherId].present /\ originalSwitcherCallback # "undefined"
                   THEN [commands EXCEPT ![SwitcherId].callback = originalSwitcherCallback]
                   ELSE commands
    /\ lastOp' = Op("unload", NoFile)
    /\ UNCHANGED <<files, fileCache, settings, suggest, cacheSuggest, timer, result, call,
                   matchReasons, editor, selected, rebuilt, service, preload, invocation,
                   originalSwitcherCallback,
                   refs, dropEvent>>

NextMain ==
    \/ OnloadMain
    \/ SaveSettingsMain
    \/ UpdateQuickSwitcherMain
    \/ OnunloadMain

SpecMain == InitLifecycle /\ [][NextMain]_vars

----------------------------------------------------------------------------
(* Selecting a suggestion in a vault with folders *)

\* paths of a vault that has a note of the same name in a folder
LinkPaths == {"a.md", "x/a.md", "ab.md"}

LinkAssignments(n) ==
    {ps \in [1..n -> LinkPaths] : \A i, j \in 1..n : i # j => ps[i] # ps[j]}

\* the suggester is registered on the vault and [[ has been typed
InitLink ==
    /\ \E n \in 0..MaxFiles :
         \E ps \in LinkAssignments(n), fms \in [1..n -> VaultFrontMatters] :
            files = [f \in FileIds |->
                        IF f <= n THEN [path |-> ps[f], inVault |-> TRUE, fm |-> fms[f]]
                        ELSE NoTFile]
    /\ settings = DefaultSettings
    /\ fileCache = buildFileCache(files,
                                  [i \in 1..Cardinality(MarkdownFiles(files)) |-> i],
                                  settings.propertyKey)
    /\ suggest = TRUE
    /\ cacheSuggest = TRUE
    /\ timer = FALSE
    /\ lastOp = NoOp
    /\ result = NoResult
    /\ call = NoCall
    /\ matchReasons = NoReasons
    /\ editor \in {ed \in EditorStates : ed.view /\ ed.context}
    /\ selected = NoSelection
    /\ HostInit

NextLink ==
    \/ SuggestForContext
    \/ SelectOnce

SpecLink == InitLink /\ [][NextLink]_vars

----------------------------------------------------------------------------
(* Quick switcher queries on a vault with more notes than the list shows *)

MaxMany == 11        \* notes in the large vault
HostVaried == 4      \* notes whose host score is not the best one

\* a quick switcher query, with the scores the host gave
OpScored(host) == [kind |-> "queryB", file |-> NoFile, recent |-> NoRecent, host |-> host]

\* a vault of one note fewer than the limit up to MaxMany notes, the first with
\* or without a title
InitLimit ==
    /\ \E n \in (ModalLimit - 1)..MaxMany, fm \in VaultFrontMatters :
         files = [f \in 1..MaxMany |->
                     IF f <= n
                     THEN [path |-> ManyFiles[f].path, inVault |-> TRUE,
                           fm |-> IF f = 1 THEN fm ELSE NoFrontmatter]
                     ELSE NoTFile]
    /\ \E qs \in BOOLEAN : settings = [DefaultSettings EXCEPT !.enableForQuickSwitcher = qs]
    /\ fileCache = <<>>
    /\ suggest = FALSE
    /\ cacheSuggest = FALSE
    /\ timer = FALSE
    /\ lastOp = NoOp
    /\ result = NoResult
    /\ call = NoCall
    /\ matchReasons = NoReasons
    /\ editor = NoEditor
    /\ selected = NoSelection
    /\ HostInit

\* the vault enumerates its notes forwards or backwards
ManyOrders(fs) ==
    LET n == Cardinality(MarkdownFiles(fs))
    IN  { [i \in 1..n |-> i], [i \in 1..n |-> n + 1 - i] }

\* a quick switcher modal is opened on the large vault and asked for the
\* suggestions for a query that is not empty
QueryMany ==
    \E q \in {<<"a">>, <<"b", "a">>}, order \in ManyOrders(files),
       host \in [1..MaxMany -> HostScores] :
        /\ result = NoResult
        /\ \A f \in 1..MaxMany : f > HostVaried => host[f] = 0
        /\ \A f \in MarkdownFiles(files) : HostExact(files, f, q, settings) => host[f] = 0
        /\ result' = Outcome("B", q,
               getSuggestionsB(buildFileCache(files, order, settings.propertyKey), files, q,
                               settings, host, NoRecent, order))
        /\ lastOp' = OpScored(host)
        /\ UNCHANGED <<files, fileCache, settings, suggest, cacheSuggest, timer, call,
                       matchReasons, editor, selected, hostVars>>

NextLimit == QueryMany

SpecLimit == InitLimit /\ [][NextLimit]_vars

----------------------------------------------------------------------------
(* A file dropped onto the editor: editor-drop and DOM drop handlers *)

\* the plugin's settings in the version with drag and drop
DropSettings(enabled) ==
    [ propertyKey |-> "title",
      enableForLinking |-> TRUE,
      enableForQuickSwitcher |-> TRUE,
      includeFilenameInSearch |-> TRUE,
      includeAliasesInSearch |-> TRUE,
      enableForDragDrop |-> enabled ]

\* the character of a line at index i (from 1), "" outside the line
CharAt(line, i) == IF i \in 1..Len(line) THEN line[i] ELSE ""

\* how many characters from index i on are not the character stop
RECURSIVE RunLength(_, _, _)
RunLength(line, i, stop) ==
    IF i > Len(line) \/ line[i] = stop THEN 0 ELSE 1 + RunLength(line, i + 1, stop)

\* /\[\[([^\]]+)\]\]/ tried at index i: the length of the match, 0 if none
wikiLinkRegex(line, i) ==
    LET k == RunLength(line, i + 2, "]")
    IN  IF /\ CharAt(line, i) = "[" /\ CharAt(line, i + 1) = "["
           /\ k >= 1
           /\ CharAt(line, i + 2 + k) = "]" /\ CharAt(line, i + 3 + k) = "]"
        THEN k + 4
        ELSE 0

\* /\[([^\]]+)\]\(([^)]+)\)/ tried at index i: the length of the match, 0 if none
markdownLinkRegex(line, i) ==
    LET k == RunLength(line, i + 1, "]")
        u == RunLength(line, i + 3 + k, ")")
    IN  IF /\ CharAt(line, i) = "["
           /\ k >= 1
           /\ CharAt(line, i + 1 + k) = "]" /\ CharAt(line, i + 2 + k) = "("
           /\ u >= 1
           /\ CharAt(line, i + 3 + k + u) = ")"
        THEN k + u + 4
        ELSE 0

NoMatch == [index |-> 0, length |-> 0]

\* the while loop over regex.exec with the g flag: the last match on the line
RECURSIVE lastMatch(_, _, _, _)
lastMatch(wiki, line, i, last) ==
    IF i > Len(line) THEN last
    ELSE LET n == IF wiki THEN wikiLinkRegex(line, i) ELSE markdownLinkRegex(line, i)
         IN  IF n > 0
             THEN lastMatch(wiki, line, i + n, [index |-> i, length |-> n])
             ELSE lastMatch(wiki, line, i + 1, last)

\* editor.replaceRange over the span of a match
replaceRange(line, text, m) ==
    SubSeq(line, 1, m.index - 1) \o text \o SubSeq(line, m.index + m.length, Len(line))

\* replaceLastInsertedLink: the cursor line after it
replaceLastInsertedLink(line, displayName) ==
    LET w == lastMatch(TRUE, line, 1, NoMatch)
        m == lastMatch(FALSE, line, 1, NoMatch)
    IN  IF w.length > 0
        THEN LET linkPath == SubSeq(line, w.index + 2, w.index + w.length - 3)
             IN  replaceRange(line,
                              <<"[", "[">> \o linkPath \o <<"|">> \o displayName \o <<"]", "]">>,
                              w)
        ELSE IF m.length > 0
        THEN LET k == RunLength(line, m.index + 1, "]")
                 linkUrl == SubSeq(line, m.index + k + 3, m.index + m.length - 2)
             IN  replaceRange(line,
                              <<"[">> \o displayName \o <<"]", "(">> \o linkUrl \o <<")">>,
                              m)
        ELSE line

\* the display name both drop handlers compute for the file
dropDisplayName(fs, f, propertyKey) ==
    LET value == PropertyValue(fs[f].fm, propertyKey)
        propertyValue == trim(value.str)
    IN  IF fs[f].fm.has /\ value.kind \notin {"undefined", "null"} /\ propertyValue # <<>>
        THEN propertyValue
        ELSE Basename(fs[f].path)

\* vault.getAbstractFileByPath
getAbstractFileByPath(fs, path) ==
    IF \E f \in DOMAIN fs : fs[f].inVault /\ fs[f].path = path
    THEN CHOOSE f \in DOMAIN fs : fs[f].inVault /\ fs[f].path = path
    ELSE NoFile

\* dataTransfer.getData('text/plain'): nothing, a file path, or an
\* obsidian://open?vault=..&file=.. URL with or without its file parameter
NoText == [kind |-> "empty", value |-> ""]
PathText(path) == [kind |-> "path", value |-> path]
UrlText(fileParam) == [kind |-> "url", value |-> fileParam]

\* the file parameter the host puts in the URL of a dragged note: its path
\* without the extension
FileParam(path) == IF path = "a.md" THEN "a" ELSE IF path = "ab.md" THEN "ab" ELSE path

\* decodeURIComponent(fileParam) + '.md'
ActualFilePath(fileParam) ==
    IF fileParam = "a" THEN "a.md" ELSE IF fileParam = "ab" THEN "ab.md" ELSE "n.txt.md"

\* the drops of file f: with or without an entry in dataTransfer.files, on the
\* editor or elsewhere
DropEvents(fs, f) ==
    { [files |-> n, text |-> t, inEditor |-> e] :
         n \in {0, 1}, e \in BOOLEAN,
         t \in {NoText, PathText(fs[f].path), UrlText(FileParam(fs[f].path)), UrlText("")} }

\* handleDragDrop: the file its deferred callback is scheduled for, NoFile when
\* it returns early
handleDragDrop(ev, fs) ==
    IF ev.files = 0 THEN NoFile
    ELSE IF ev.text.kind # "path" \/ Extension(ev.text.value) # "md" THEN NoFile
    ELSE getAbstractFileByPath(fs, ev.text.value)

\* handleDOMDrop: the file its deferred callback is scheduled for
handleDOMDrop(ev, fs) ==
    IF ~ev.inEditor THEN NoFile
    ELSE IF ev.text.kind = "empty" THEN NoFile
    ELSE IF ev.text.kind = "url"
         THEN IF ev.text.value # ""
              THEN getAbstractFileByPath(fs, ActualFilePath(ev.text.value))
              ELSE NoFile
    ELSE IF Extension(ev.text.value) # "md" THEN NoFile
    ELSE getAbstractFileByPath(fs, ev.text.value)

\* the link the host inserts for a dropped file
HostLink(fs, f, useMarkdownLinks) ==
    IF useMarkdownLinks
    THEN <<"[">> \o BasenameOf(fs, f) \o <<"]", "(">> \o encodeURI(PathChars(fs[f].path))
         \o <<")">>
    ELSE <<"[", "[">> \o BasenameOf(fs, f) \o <<"]", "]">>

\* what the cursor line holds before the drop
DropPrefixes == { <<>>, <<"b", " ">> }

\* a vault of two notes, the first with any front-matter, and either value of
\* the drag and drop setting
InitDrop ==
    /\ \E fm \in FrontMatters :
         files = [f \in FileIds |->
                     IF f = 1 THEN [path |-> "a.md", inVault |-> TRUE, fm |-> fm]
                     ELSE IF f = 2 THEN [path |-> "ab.md", inVault |-> TRUE,
                                         fm |-> NoFrontmatter]
                     ELSE NoTFile]
    /\ \E enabled \in BOOLEAN : settings = DropSettings(enabled)
    /\ fileCache = <<>>
    /\ suggest = FALSE
    /\ cacheSuggest = FALSE
    /\ timer = FALSE
    /\ lastOp = NoOp
    /\ result = NoResult
    /\ call = NoCall
    /\ matchReasons = NoReasons
    /\ editor = NoEditor
    /\ selected = NoSelection
    /\ HostInit

\* one drop event: the editor-drop handler and the DOM drop handler of onload
\* run, and the host inserts its link at the cursor
DropFile ==
    \E f \in {1, 2}, prefix \in DropPrefixes, md \in BOOLEAN :
      \E ev \in DropEvents(files, f) :
        LET viaEditor == IF settings.enableForDragDrop /\ ev.inEditor
                         THEN handleDragDrop(ev, files) ELSE NoFile
            viaDOM == IF settings.enableForDragDrop
                      THEN handleDOMDrop(ev, files) ELSE NoFile
            scheduled == (IF viaEditor # NoFile THEN {"editor-drop"} ELSE {})
                           \cup (IF viaDOM # NoFile THEN {"dom-drop"} ELSE {})
            inserted == IF ev.inEditor THEN HostLink(files, f, md) ELSE <<>>
        IN  /\ dropEvent.pending = {}
            /\ editor' = [NoEditor EXCEPT !.view = TRUE,
                                          !.line = prefix \o inserted,
                                          !.cursor = Len(prefix \o inserted),
                                          !.useMarkdownLinks = md]
            /\ dropEvent' = [ file |-> f,
                              displayName |-> dropDisplayName(files, f, settings.propertyKey),
                              prefix |-> prefix,
                              inserted |-> inserted,
                              scheduled |-> scheduled,
                              pending |-> scheduled,
                              rewrites |-> 0 ]
            /\ lastOp' = Op("drop", f)
            /\ UNCHANGED <<files, fileCache, settings, suggest, cacheSuggest, timer, result,
                           call, matchReasons, selected, rebuilt, commands, service,
                           suggests, loaded, preload, invocation, originalSwitcherCallback,
                           refs>>

\* a deferred callback runs: the line is rewritten
Deferred(handler) ==
    /\ handler \in dropEvent.pending
    /\ editor' = [editor EXCEPT !.line = IF handler = "dom-drop" /\ ~editor.view
                                         THEN @
                                         ELSE replaceLastInsertedLink(@, dropEvent.displayName)]
    /\ dropEvent' = [dropEvent EXCEPT !.pending = @ \ {handler},
                                      !.rewrites = IF editor'.line # editor.line
                                                   THEN @ + 1 ELSE @]
    /\ lastOp' = Op(handler, dropEvent.file)
    /\ UNCHANGED <<files, fileCache, settings, suggest, cacheSuggest, timer, result,
                   call, matchReasons, selected, rebuilt, commands, service,
                   suggests, loaded, preload, invocation, originalSwitcherCallback, refs>>

\* the setTimeout callback of handleDragDrop
DeferredDragDrop == "editor-drop" \in dropEvent.scheduled /\ Deferred("editor-drop")

\* the setTimeout callback of handleDOMDrop
DeferredDOMDrop == "dom-drop" \in dropEvent.scheduled /\ Deferred("dom-drop")

NextDrop ==
    \/ DropFile
    \/ DeferredDragDrop
    \/ DeferredDOMDrop

SpecDrop == InitDrop /\ [][NextDrop]_vars

----------------------------------------------------------------------------
(* Properties *)

StorePaths == {files[f].path : f \in MarkdownFiles(files)}

\* C1: whenever a suggester is registered and every vault notification has
\* been handled, the index holds exactly one record per markdown file of the
\* vault, keyed by the file's current path, and no record under another key
C1_IndexMatchesStore ==
    (/\ suggest
     /\ lastOp.kind \in {"modify", "rename", "delete"}
     /\ Extension(files[lastOp.file].path) = "md")
        => /\ Keys(fileCache) = StorePaths
           /\ Len(fileCache) = Cardinality(StorePaths)

\* C2: right after the delete notification of a markdown file has been
\* handled, the index holds no record keyed by that file's path
C2_DeleteRemovesRecord ==
    (/\ lastOp.kind = "delete"
     /\ suggest
     /\ Extension(files[lastOp.file].path) = "md")
        => files[lastOp.file].path \notin Keys(fileCache)

RebuildHandled ==
    /\ suggest
    /\ \/ lastOp.kind \in {"resolved", "rebuild-command"}
       \/ lastOp.kind = "changed" /\ Extension(files[lastOp.file].path) = "md"

\* the record the derivation rule gives the vault's file at a path
DerivedRecord(path) ==
    LET f == CHOOSE g \in MarkdownFiles(files) : files[g].path = path
    IN  CachedFileData(files, f, files[f].fm, settings.propertyKey)

\* C3: once a rebuild signal (metadata changed for a markdown file, metadata
\* resolved, the rebuild command) has been handled with a suggester registered,
\* the index has exactly the vault's markdown paths as keys and every record is
\* the derivation of its file's current front-matter and basename
C3_RebuildRestoresIndex ==
    RebuildHandled =>
        /\ Keys(fileCache) = StorePaths
        /\ Len(fileCache) = Cardinality(StorePaths)
        /\ \A i \in 1..Len(fileCache) : fileCache[i] = DerivedRecord(fileCache[i].path)

C3_Witness ==
    /\ RebuildHandled
    /\ Len(fileCache) >= 2
    /\ \E i \in 1..Len(fileCache) : fileCache[i].isCustomDisplay

\* C4: both query entry points return a list and never raise
C4_QueriesNeverRaise == result.mode \in {"A", "B"} => ~result.threw

\* C5: a Mode A query on an index that holds a record of a deleted file does
\* not raise and returns no entry for a file that is not in the vault
C5_DanglingSkipped ==
    lastOp.kind = "queryA" =>
        /\ ~result.threw
        /\ \A i \in 1..Len(result.list) :
              result.list[i].file # NoFile => files[result.list[i].file].inVault

\* tier of a candidate for a query: 3 equal, 2 starts with it, 1 contains it
Tier(candidate, query) ==
    LET c == toLowerCase(candidate)
        q == toLowerCase(query)
    IN  IF c = q THEN 3
        ELSE IF startsWith(c, q) THEN 2
        ELSE IF includes(c, q) THEN 1
        ELSE 0

\* C6: for one query and one includeAlt setting, a candidate of a higher tier
\* (equal, starts with, contains) scores strictly higher than one of a lower tier
C6_TierDominance ==
    (/\ call.done
     /\ Tier(call.second, call.query) >= 1
     /\ Tier(call.first, call.query) > Tier(call.second, call.query))
        => call.firstScore > call.secondScore


RealEntries(list) == {i \in 1..Len(list) : list[i].file # NoFile}

\* the display name or the basename of file f equals the query, case ignored
IsExact(f, query) ==
    \/ toLowerCase(getDisplayName(files, f, settings.propertyKey)) = toLowerCase(query)
    \/ toLowerCase(Basename(files[f].path)) = toLowerCase(query)

\* C7: in the list of Mode A and of Mode B, every record whose display name or
\* basename equals the query (case ignored) comes before every record that
\* matches in another way
C7_ExactFirst ==
    (/\ result.mode \in {"A", "B"}
     /\ ~result.threw
     /\ result.mode = "B" => settings.enableForQuickSwitcher
     /\ trim(result.query) # <<>>)
        => \A i, j \in RealEntries(result.list) :
              (i < j /\ IsExact(result.list[j].file, trim(result.query)))
                  => IsExact(result.list[i].file, trim(result.query))

\* the same records in every insertion order
PermutedCaches ==
    { [i \in 1..Len(fileCache) |-> fileCache[o[i]]] : o \in Orderings(1..Len(fileCache)) }

Texts(list) == [i \in 1..Len(list) |-> list[i].display]

Scores(list, query) ==
    [i \in 1..Len(list) |-> ScoreOf(list[i], files, trim(query), settings)]

\* C8 as stated: Mode A returns the same ordered list for every insertion
\* order of the same records
C8_OrderIndependent ==
    result.mode = "A" =>
        \A cache \in PermutedCaches :
            getSuggestions(cache, files, result.query, settings)
                = [threw |-> result.threw, list |-> result.list]

\* C8: for every insertion order of the same records Mode A has the same
\* outcome up to the order of entries with equal score and equal display text:
\* it raises for all orders or for none, the display texts and the scores of
\* the returned list are the same sequence, and entries with equal score
\* stand in ascending order of display text
C8_TieBreak ==
    result.mode = "A" =>
        /\ \A cache \in PermutedCaches :
              LET other == getSuggestions(cache, files, result.query, settings)
              IN  /\ other.threw = result.threw
                  /\ Texts(other.list) = Texts(result.list)
                  /\ Scores(other.list, result.query) = Scores(result.list, result.query)
        /\ \A i \in 1..(Len(result.list) - 1) :
              LET sc == Scores(result.list, result.query)
              IN  \/ sc[i] > sc[i + 1]
                  \/ /\ sc[i] = sc[i + 1]
                     /\ localeCompare(result.list[i].display, result.list[i + 1].display) <= 0

PositionInCache(f) == CHOOSE i \in 1..Len(fileCache) : fileCache[i].file = f

\* two entries of equal score were inserted in the other order and come out
\* in ascending display text
C8_Witness ==
    /\ result.mode = "A"
    /\ ~result.threw
    /\ \E i \in 1..(Len(result.list) - 1) :
          LET sc == Scores(result.list, result.query)
          IN  /\ sc[i] = sc[i + 1]
              /\ localeCompare(result.list[i].display, result.list[i + 1].display) < 0
              /\ PositionInCache(result.list[i].file)
                     > PositionInCache(result.list[i + 1].file)

\* the inclusion rule of Mode A, as the design states it
InclusionRule(rec, query, st) ==
    \/ query = <<>>
    \/ fuzzyMatch(rec.displayName, query)
    \/ /\ st.includeFilenameInSearch
       /\ Basename(files[rec.file].path) # rec.displayName
       /\ fuzzyMatch(Basename(files[rec.file].path), query)
    \/ /\ st.includeAliasesInSearch
       /\ \E k \in 1..Len(rec.aliases) : fuzzyMatch(rec.aliases[k], query)

Listed(f) == \E k \in 1..Len(result.list) : result.list[k].file = f

\* C9: a record is in the result of a Mode A query iff the inclusion rule
\* holds of it for the trimmed query and the flags
C9_InclusionRule ==
    result.mode = "A" =>
        \A i \in 1..Len(fileCache) :
            Listed(fileCache[i].file)
                <=> InclusionRule(fileCache[i], trim(result.query), settings)

NoRecordMatches(query) ==
    \A i \in 1..Len(fileCache) : ~InclusionRule(fileCache[i], query, settings)

\* C10: a Mode A query that is not empty and matches no record returns the
\* list of exactly the 'No match found' entry; that entry never stands in a
\* list with another entry, and never in the list of an empty query
C10_NoMatchSentinel ==
    result.mode = "A" =>
        /\ (trim(result.query) # <<>> /\ NoRecordMatches(trim(result.query)))
              => (~result.threw /\ result.list = <<NoMatchItem>>)
        /\ \A k \in 1..Len(result.list) :
              result.list[k].isNoMatch
                  => /\ Len(result.list) = 1
                     /\ result.list[k] = NoMatchItem
                     /\ trim(result.query) # <<>>
                     /\ NoRecordMatches(trim(result.query))

C10_Witness ==
    /\ result.mode = "A"
    /\ Len(fileCache) >= 2
    /\ trim(result.query) # <<>>
    /\ result.list = <<NoMatchItem>>

\* C11: selecting the 'No match found' entry leaves the editor's text and
\* cursor as they were, whatever the state of the editor
C11_SentinelNoOp ==
    [][(lastOp'.kind = "select" /\ selected'.isNoMatch)
          => (editor'.line = editor.line /\ editor'.cursor = editor.cursor)]_vars

C11_Witness ==
    /\ lastOp.kind = "select"
    /\ selected.isNoMatch
    /\ editor.view
    /\ editor.context

\* the reason the design prescribes for a record
PrescribedReason(rec, query, st) ==
    [ matchedInTitle |-> query = <<>> \/ fuzzyMatch(rec.displayName, query),
      matchedInFilename |-> /\ st.includeFilenameInSearch
                            /\ Basename(files[rec.file].path) # rec.displayName
                            /\ fuzzyMatch(Basename(files[rec.file].path), query),
      matchedInAlias |-> /\ st.includeAliasesInSearch
                         /\ \E k \in 1..Len(rec.aliases) : fuzzyMatch(rec.aliases[k], query) ]

\* C16: after a search of the reason-recording suggester that returned, reasons
\* are held for exactly the files of the returned list, and every returned
\* record has the reason the design prescribes, with at least one flag set
C16_ReasonsAccurate ==
    (lastOp.kind = "queryReasons" /\ ~result.threw) =>
        /\ {e.path : e \in matchReasons}
              = {files[result.list[k].file].path : k \in RealEntries(result.list)}
        /\ \A i \in 1..Len(fileCache) :
              InclusionRule(fileCache[i], trim(result.query), settings)
                  => \E e \in matchReasons :
                        /\ e.path = files[fileCache[i].file].path
                        /\ e.reason = PrescribedReason(fileCache[i], trim(result.query),
                                                       settings)
                        /\ ReasonMatches(e.reason)

\* the host search finds the query in the text shown for file f
TitleMatchB(f, query) == fuzzyMatch(getItemText(files, f, settings), query)

AliasMatchB(f, query) ==
    /\ settings.includeAliasesInSearch
    /\ \E k \in 1..Len(NormalizedAliases(files[f].fm)) :
          fuzzyMatch(NormalizedAliases(files[f].fm)[k], query)

\* a quick switcher search with the feature on and a query that is not empty
SearchedB ==
    /\ result.mode = "B"
    /\ settings.enableForQuickSwitcher
    /\ trim(result.query) # <<>>

\* C12: with includeFilenameInSearch, the quick switcher lists every file
\* whose basename differs from its display name and fuzzy-matches the query
C12_FilenameMatchListed ==
    (SearchedB /\ settings.includeFilenameInSearch) =>
        \A f \in MarkdownFiles(files) :
            (/\ Basename(files[f].path) # getDisplayName(files, f, settings.propertyKey)
             /\ fuzzyMatch(Basename(files[f].path), trim(result.query)))
                => Listed(f)

\* C13: in the quick switcher's list every file with a title match stands
\* before every file that is listed for an alias only
C13_AliasOnlyAfterTitle ==
    SearchedB =>
        \A i, j \in RealEntries(result.list) :
            (/\ TitleMatchB(result.list[i].file, trim(result.query))
             /\ ~TitleMatchB(result.list[j].file, trim(result.query)))
                => i < j

\* the tracker's last open files that are files of the vault, in its order
SuppliedRecent ==
    IF lastOp.recent.tracker
    THEN SelectSeq(lastOp.recent.lastOpen, LAMBDA p : p \in PathsInVault(files))
    ELSE <<>>

ListPaths == [k \in 1..Len(result.list) |-> files[result.list[k].file].path]

RecentQueried == result.mode = "B" /\ trim(result.query) = <<>>

C17_FilenameGated ==
    (call.done /\ ~call.includeAlt) => call.firstScore = call.otherScore

\* the front-matter holds a usable value at the configured property key
HasPropertyValue(fm) ==
    /\ fm.has
    /\ settings.propertyKey = "title"
    /\ fm.title.kind \notin {"undefined", "null"}
    /\ trim(fm.title.str) # <<>>

\* C18: a record's display name is the trimmed text of the property value and
\* isCustomDisplay is true when the front-matter holds a value that is not
\* null and not empty after trimming; otherwise the display name is the
\* basename and isCustomDisplay is false
C18_DisplayNameDerivation ==
    \A i \in 1..Len(fileCache) :
        LET rec == fileCache[i]
            fm == files[rec.file].fm
        IN  IF HasPropertyValue(fm)
            THEN rec.displayName = trim(fm.title.str) /\ rec.isCustomDisplay
            ELSE rec.displayName = Basename(files[rec.file].path) /\ ~rec.isCustomDisplay

C18_Witness ==
    /\ lastOp.kind \in {"modify", "rebuild-command"}
    /\ \E i \in 1..Len(fileCache) :
          /\ fileCache[i].isCustomDisplay
          /\ fileCache[i].displayName # files[fileCache[i].file].fm.title.str

\* the aliases the design prescribes: the value as a list, each entry trimmed,
\* empty entries dropped
PrescribedAliases(fm) ==
    IF ~fm.has \/ fm.aliases.kind = "undefined" THEN <<>>
    ELSE SelectSeq([k \in 1..Len(fm.aliases.items) |-> trim(fm.aliases.items[k])],
                   LAMBDA a : a # <<>>)

\* C19: a record's aliases are the front-matter's aliases value as a list of
\* strings, each trimmed, empty ones dropped, in order; none is empty or
\* starts or ends with white space
C19_AliasNormalization ==
    \A i \in 1..Len(fileCache) :
        LET rec == fileCache[i]
        IN  /\ rec.aliases = PrescribedAliases(files[rec.file].fm)
            /\ \A k \in 1..Len(rec.aliases) :
                  /\ rec.aliases[k] # <<>>
                  /\ ~IsSpace(rec.aliases[k][1])
                  /\ ~IsSpace(rec.aliases[k][Len(rec.aliases[k])])

\* q is a subsequence of s, case ignored
RECURSIVE IsSubsequence(_, _)
IsSubsequence(q, s) ==
    IF q = <<>> THEN TRUE
    ELSE IF s = <<>> THEN FALSE
    ELSE \/ LowerChar(Head(q)) = LowerChar(Head(s)) /\ IsSubsequence(Tail(q), Tail(s))
         \/ IsSubsequence(q, Tail(s))

\* C20: fuzzyMatch(candidate, query) is true iff the query's characters occur
\* in the candidate in order, case ignored; the empty query matches always
C20_FuzzyIsSubsequence ==
    call.done =>
        /\ call.value <=> IsSubsequence(call.query, call.candidate)
        /\ call.query = <<>> => call.value

C20_Witness ==
    /\ call.done
    /\ call.value
    /\ Len(call.query) >= 2
    /\ ~includes(call.candidate, call.query)
    /\ ~includes(toLowerCase(call.candidate), toLowerCase(call.query))

\* C21: on an unchanged vault, a full build followed by updateFileCache(f)
\* for the markdown files of the vault, in any order and any number of times,
\* leaves the index equal to what the full build produced: the same records
\* under the same keys in the same order
C21_RebuildEquivalence == fileCache = rebuilt

\* an update has rewritten the record of a file that is not the last of two
C21_Witness ==
    /\ lastOp.kind = "update"
    /\ Len(rebuilt) = 2
    /\ rebuilt[1].file = lastOp.file
    /\ rebuilt[1].isCustomDisplay
    /\ fileCache = rebuilt

\* the path of the file the handler that ran last was notified about: a deleted
\* file keeps its path, a renamed one has its new path
HandledPath ==
    IF lastOp'.kind = "delete" THEN files[lastOp'.file].path ELSE files'[lastOp'.file].path

\* the handler that ran last passed its markdown file to updateFileCache
UpdateHandled ==
    /\ lastOp'.kind \in {"modify", "rename", "delete"}
    /\ cacheSuggest
    /\ Extension(HandledPath) = "md"

\* C22: updateFileCache(f), as the modify, rename and delete handlers call it,
\* changes only the record keyed by f.path: every record under another key
\* keeps its fields and its position, no key is removed, and a record keyed
\* by f.path exists afterwards, inserted if there was none
C22_UpdateFrame ==
    [][UpdateHandled =>
          LET path == HandledPath
          IN  /\ path \in Keys(fileCache')
              /\ Keys(fileCache') = Keys(fileCache) \cup {path}
              /\ Len(fileCache') = Len(fileCache) + (IF path \in Keys(fileCache) THEN 0 ELSE 1)
              /\ \A i \in 1..Len(fileCache) :
                    fileCache[i].path # path => fileCache'[i] = fileCache[i]]_vars

\* a rename has inserted a record under the new path beside the record of another key
C22_Witness ==
    /\ cacheSuggest
    /\ lastOp.kind = "rename"
    /\ Len(fileCache) = 2
    /\ fileCache[2].path = files[lastOp.file].path
    /\ fileCache[1].path # fileCache[2].path

\* C23: once the property key has been changed and saveSettings has completed,
\* and still when the next query is answered, every record of the registered
\* suggester's index has the displayName and isCustomDisplay that the new key
\* gives its file
C23_KeyChangeRebuilds ==
    (suggest /\ lastOp.kind \in {"property-key", "queryA"}) =>
        \A i \in 1..Len(fileCache) :
            /\ fileCache[i].displayName = DerivedRecord(fileCache[i].path).displayName
            /\ fileCache[i].isCustomDisplay = DerivedRecord(fileCache[i].path).isCustomDisplay

\* C24 as stated: when the startup callback ran before onunload, the registry
\* entry 'switcher:open' after onunload equals the entry before the plugin
\* loaded (id, name, icon, hotkeys, callback), or is absent if it was absent,
\* and no entry installed by the plugin remains
C24_RegistryRestoredExactly ==
    loaded = "unloaded" =>
        /\ commands[SwitcherId] = preload.commands[SwitcherId]
        /\ ~commands[PluginSwitcherId].present

\* C24: when the startup callback ran before onunload, the registry entry
\* 'switcher:open' after onunload has the id, name, icon and callback of the
\* entry before the plugin loaded and its hotkeys, an absent hotkeys list
\* having become an empty one; it is absent if it was absent; and no entry
\* installed by the plugin remains
C24_RegistryRestored ==
    loaded = "unloaded" =>
        LET before == preload.commands[SwitcherId]
            after == commands[SwitcherId]
        IN  /\ after.present = before.present
            /\ after.id = before.id
            /\ after.name = before.name
            /\ after.icon = before.icon
            /\ after.callback = before.callback
            /\ after.hotkeys.keys = before.hotkeys.keys
            /\ before.present => after.hotkeys.defined
            /\ ~commands[PluginSwitcherId].present

\* the plugin is unloaded after a startup that replaced a host command without
\* a hotkeys list, and after the setting was toggled
C24_Witness ==
    /\ loaded = "unloaded"
    /\ preload.commands[SwitcherId].present
    /\ ~preload.commands[SwitcherId].hotkeys.defined
    /\ service.originalSwitcherCommand.present
    /\ settings.enableForQuickSwitcher = FALSE

C29_NoStartupAfterUnload ==
    /\ (loaded = "unloaded-early" /\ ~timer) =>
          /\ \A s \in Range(suggests) : s.name # PluginSuggest
          /\ commands[SwitcherId] = preload.commands[SwitcherId]
    /\ (loaded \in {"unloaded", "unloaded-early"} /\ ~timer) =>
          /\ commands = preload.commands
          /\ suggests = preload.suggests

\* C28: in the plugin whose updateQuickSwitcher swaps command.callback, after
\* any sequence of updateQuickSwitcher and saveSettings calls with any setting
\* values, originalSwitcherCallback is undefined or the host's original
\* callback, never the plugin's wrapper; while the plugin is loaded the
\* wrapper is the command's callback iff enableForQuickSwitcher is true; and
\* after onunload the command's callback is the host's original
C28_CallbackSwap ==
    /\ originalSwitcherCallback \in {"undefined", "host"}
    /\ (loaded = "yes" /\ commands[SwitcherId].present) =>
          (commands[SwitcherId].callback = "wrapper" <=> settings.enableForQuickSwitcher)
    /\ (loaded = "unloaded" /\ commands[SwitcherId].present) =>
          commands[SwitcherId].callback = "host"

\* the plugin is unloaded with the wrapper installed, after the setting that
\* was off at load had been saved as on
C28_Witness ==
    /\ loaded = "unloaded"
    /\ commands[SwitcherId].callback = "host"
    /\ originalSwitcherCallback = "host"
    /\ settings.enableForQuickSwitcher
    /\ ~preload.settings.enableForQuickSwitcher

\* how many entries of a suggestion list refer to file f
Occurrences(list, f) == Cardinality({k \in 1..Len(list) : list[k].file = f})

\* C30: once the rename notification for a markdown file moved from path p to
\* path p' has been handled, the index holds a record keyed by p' and none
\* keyed by p, and a Mode A query answered next lists the renamed file at
\* most once
C30_RenameMovesRecord ==
    [][/\ (/\ lastOp'.kind = "rename"
           /\ cacheSuggest
           /\ Extension(files[lastOp'.file].path) = "md"
           /\ Extension(files'[lastOp'.file].path) = "md")
          => /\ files'[lastOp'.file].path \in Keys(fileCache')
             /\ files[lastOp'.file].path \notin Keys(fileCache')
       /\ (/\ lastOp.kind = "rename"
           /\ lastOp'.kind = "queryA"
           /\ ~result'.threw)
          => Occurrences(result'.list, lastOp.file) <= 1]_vars

\* C26: the link selectSuggestion inserts for a selected file identifies it
\* among the files of the vault: no other markdown file of the vault gets the
\* same link target (basename in a wikilink, encoded path in a markdown link)
C26_LinkTargetUnique ==
    (lastOp.kind = "select" /\ ~selected.isNoMatch) =>
        \A g \in MarkdownFiles(files) \ {selected.file} :
            LinkTarget(files, g, editor.useMarkdownLinks)
               # LinkTarget(files, selected.file, editor.useMarkdownLinks)

\* the files a quick switcher query finds before it sorts and cuts, with their scores
CandidatesB ==
    LET n == Cardinality(MarkdownFiles(files))
        order == [i \in 1..n |-> i]
        q == trim(result.query)
    IN  IF settings.enableForQuickSwitcher
        THEN MatchingFiles(buildFileCache(files, order, settings.propertyKey), files, q,
                           settings, lastOp.host)
        ELSE DefaultMatches(order, files, q, lastOp.host)

\* item x does not rank below item y: a higher score, or the same score and a
\* text that does not sort after
RanksBefore(x, y) ==
    \/ x.score > y.score
    \/ /\ x.score = y.score
       /\ localeCompare(getItemText(files, x.file, settings),
                        getItemText(files, y.file, settings)) <= 0

\* C27: the result of a quick switcher query that is not empty has at most
\* ModalLimit entries; they are in rank order; and every file found but not
\* listed ranks no better than each listed one, so the cut keeps the best
C27_LimitAfterSort ==
    (result.mode = "B" /\ trim(result.query) # <<>>) =>
        LET found == Range(CandidatesB)
            listed == Range(result.list)
        IN  /\ Len(result.list) <= ModalLimit
            /\ found # {} => /\ listed \subseteq found
                             /\ Len(result.list) = Cardinality(listed)
                             /\ Cardinality(found) > ModalLimit => Len(result.list) = ModalLimit
            /\ \A i, j \in 1..Len(result.list) :
                  i < j => RanksBefore(result.list[i], result.list[j])
            /\ \A x \in listed, y \in found \ listed : RanksBefore(x, y)

\* more files were found than the list holds, and a file with a low score
\* from the front of the vault was cut while later files were kept
C27_Witness ==
    /\ result.mode = "B"
    /\ Len(result.list) = ModalLimit
    /\ \E y \in Range(CandidatesB) \ Range(result.list) :
          /\ y.score < 0
          /\ \E x \in Range(result.list) : x.file > y.file

\* C31: right after property-based linking is disabled (enableForLinking set to
\* false, then updateLinkSuggester) and right after the plugin is unloaded, the
\* editor-suggest list equals the list the host had before the plugin loaded;
\* every host suggester the plugin filtered out is in it again
C31_SuggestListRestored ==
    (\/ lastOp.kind = "unload"
     \/ lastOp.kind = "toggle-linking" /\ ~settings.enableForLinking) =>
        /\ suggests = preload.suggests
        /\ \A s \in Range(preload.suggests) : s \in Range(suggests)

\* C33: right after every updateLinkSuggester call (startup timer, toggle-linking
\* command), with enableForLinking true the editor-suggest list holds the
\* plugin's current LinkTitleSuggest instance as its first element, with
\* enableForLinking false the plugin has no current instance, and in both cases
\* no LinkTitleSuggest instance other than the current one is in the list
C33_CurrentSuggesterFirst ==
    lastOp.kind \in {"startup", "toggle-linking"} =>
        /\ settings.enableForLinking <=> refs.suggest # NoInstance
        /\ settings.enableForLinking <=> LinkTitleSuggest(refs.suggest) \in Range(suggests)
        /\ settings.enableForLinking => Head(suggests) = LinkTitleSuggest(refs.suggest)
        /\ \A s \in Range(suggests) : s.name = PluginSuggest => s.instance = refs.suggest

\* linking was on when the plugin loaded, the startup timer has run, and the
\* toggle-linking command has just turned linking on again: the instance at the
\* head of the list replaced an earlier one
C33_Witness ==
    /\ lastOp.kind = "toggle-linking"
    /\ loaded = "yes"
    /\ ~timer
    /\ preload.settings.enableForLinking
    /\ settings.enableForLinking
    /\ Head(suggests) = LinkTitleSuggest(refs.suggest)
    /\ Len(suggests) = 4

\* C34: whenever plugin.suggest is defined, the suggester CacheService forwards
\* invalidateCache and rebuildCache to is that same object
C34_CacheTargetIsCurrent ==
    (suggest \/ refs.suggest # NoInstance) =>
        /\ cacheSuggest
        /\ refs.suggest # NoInstance
        /\ refs.cacheSuggest = refs.suggest

\* the startup timer has run and the toggle-linking command has just turned
\* linking on in a vault with notes: CacheService was handed the new suggester
C34_Witness ==
    /\ lastOp.kind = "toggle-linking"
    /\ ~timer
    /\ suggest
    /\ refs.cacheSuggest = refs.suggest
    /\ fileCache # <<>>

\* C32: when every deferred callback scheduled for a drop onto the editor has
\* run, the wikilink the host inserted has become [[target|displayName]], with
\* the display name once; and rewriting the line again would not change it
C32_DropRewritesOnce ==
    (dropEvent.scheduled # {} /\ dropEvent.pending = {}) =>
        /\ ~editor.useMarkdownLinks =>
              editor.line = dropEvent.prefix \o <<"[", "[">>
                              \o BasenameOf(files, dropEvent.file) \o <<"|">>
                              \o dropEvent.displayName \o <<"]", "]">>
        /\ dropEvent.rewrites <= 1
        /\ replaceLastInsertedLink(editor.line, dropEvent.displayName) = editor.line

====
